---------------------------- MODULE Spec2Model ----------------------------
(***************************************************************************)
(* Flight booking application (Django).  The model covers the request      *)
(* handlers of flight/views.py that read and write the session and the     *)
(* tables of flight/models.py: flight_results (its effect on the session   *)
(* and on FlightSearchLog), booking_page (selection, FlightTemp),          *)
(* confirm_booking (Booking + Passenger + Payment) and confirm_payment,    *)
(* and the token cache of flight/amadeus.py (get_access_token).            *)
(*                                                                         *)
(* Requests are handled by workers.  A handler is a sequence of steps; a   *)
(* step is one database statement (autocommit) or one transaction.atomic   *)
(* block, together with the local computation that precedes it.  Steps of  *)
(* different workers interleave freely.                                    *)
(***************************************************************************)
EXTENDS Integers, Sequences, FiniteSets, TLC

VARIABLES
    clock,        \* int(time.time()): the wall clock in whole seconds
    session,      \* request.session of each user
    searchLogs,   \* number of FlightSearchLog rows (ids 1..searchLogs)
    flightTemps,  \* FlightTemp rows, id = position
    bookings,     \* Booking rows, id = position
    passengers,   \* Passenger rows
    payments,     \* Payment rows
    worker,       \* the request each worker is handling and its local variables
    last,         \* the response sent by the step just taken, if any
    settings,     \* the token configuration of the deployment
    TOKEN,        \* amadeus._TOKEN
    EXPIRES_AT,   \* amadeus._EXPIRES_AT
    exchanges,    \* number of token exchanges attempted with the provider
    caller,       \* the get_access_token call each thread is in
    sessionToken, \* request.session["amadeus_token"] and ["amadeus_token_ts"] of each user
    api,          \* the _amadeus_request_json call in progress and its local variables
    FX_CACHE,     \* views._FX_CACHE: the rate to IDR and its time, per currency
    returned      \* what the last call returned or rendered: the context of a
                  \* results or payment page, the pair of _convert_to_idr

vars == <<clock, session, searchLogs, flightTemps, bookings, passengers, payments, worker, last,
          settings, TOKEN, EXPIRES_AT, exchanges, caller, sessionToken, api, FX_CACHE, returned>>

\* the variables of the token cache
tokenVars == <<settings, TOKEN, EXPIRES_AT, exchanges, caller>>

\* the variables of the provider calls
apiVars == <<sessionToken, api>>

\* the rate cache and the value returned.  The handlers convert prices for
\* display only and keep nothing of the result but in FX_CACHE, which no
\* handler reads otherwise: the conversions are modelled by the calls of
\* _convert_to_idr, and what a handler renders by returned where a property needs it.
viewVars == <<FX_CACHE, returned>>

\* the variables of the request handlers, but for clock and last
appVars == <<session, searchLogs, flightTemps, bookings, passengers, payments, worker>>


-----------------------------------------------------------------------------
(* Bounds of the model *)

MaxTime == 2
MaxTemps == 2
MaxLogs == 2

Users == {"alice", "bob"}
Workers == {"w1", "w2"}

-----------------------------------------------------------------------------
(* The provider's offers.  An offer is identified by its id; NoOffer is    *)
(* Python's None.  Prices are whole currency units; NoPrice is a missing   *)
(* price["total"] (None).                                                  *)

NoOffer == ""
NoPrice == 0

Offers == {"o1", "o2"}

\* DecimalField(max_digits=10, decimal_places=2): 8 integer digits at most
DecimalLimit == 100000000

\* offer["price"]["total"]
OfferTotal(o) == IF o = "o1" THEN 100 ELSE 250

\* offer["price"]["currency"]
OfferCurrency(o) == IF o = "o1" THEN "USD" ELSE "EUR"

\* the result sets a successful search leaves in the session
ResultSets == { <<>>, <<"o1">> }

\* request.session.get("search_results") is kept as its data list: the code
\* treats a session without search results and one whose data list is empty
\* alike (lines 474 and 564-568)
NoResults == <<>>

\* Decimal(str(total)) fits the column
Storable(total) == total < DecimalLimit

-----------------------------------------------------------------------------
(* Request parameters *)

\* request.POST.get("idx"): absent, not an integer, or an integer
IdxInputs ==
    {[kind |-> "none", n |-> 0], [kind |-> "bad", n |-> 0]}
        \cup {[kind |-> "int", n |-> i] : i \in -1..1}

\* request.POST.get("amount"): absent, not a decimal, or a decimal
NoAmount == [kind |-> "none", v |-> 0]
BadAmount == [kind |-> "bad", v |-> 0]
Amounts == {100, 110}
AmountInputs == {NoAmount} \cup {[kind |-> "dec", v |-> a] : a \in Amounts}

StatusInputs == {"paid", "failed"}

\* a booking reference "BK<seconds>" is modelled by its seconds; NoRef is the
\* empty reference (and created_booking_ref = None)
NoRef == 0
RefInputs == 1..MaxTime

\* the local variable priced of confirm_booking after the pricing call:
\*   none          None: the call was not attempted (no token, no offer) or it
\*                 failed (HTTP error, network error, failed token refresh)
\*   ok            a response whose data.flightOffers[0] carries the quoted price
\*   ok_huge       as ok, the quoted total does not fit DecimalField(10, 2)
\*   ok_nodata     a response without a data object: the offer's price is used
\*   ok_malformed  data.flightOffers is empty or the response is no object
\*   ok_noprice    data.flightOffers[0] has no price
PricedOutcomes == {"none", "ok", "ok_huge", "ok_nodata", "ok_malformed", "ok_noprice"}

\* the total the pricing endpoint quotes (it may differ from the search's)
QuotedTotal(o, priced) == IF priced = "ok_huge" THEN DecimalLimit ELSE OfferTotal(o) + 10

\* Python's list[int(idx)]: negative indexes count from the end; IndexError
\* and ValueError are caught and give None
PyIndex(data, idx) ==
    IF idx.kind # "int" THEN NoOffer
    ELSE IF idx.n >= 0 /\ idx.n < Len(data) THEN data[idx.n + 1]
    ELSE IF idx.n < 0 /\ -idx.n <= Len(data) THEN data[Len(data) + idx.n + 1]
    ELSE NoOffer

-----------------------------------------------------------------------------
(* Workers.  pc is the handler's position; the other fields are its local  *)
(* variables, kept only while a later step reads them.                     *)

Idle ==
    [pc |-> "idle", offer |-> NoOffer, priced |-> "none", bid |-> 0, amt |-> NoAmount]

IsIdle(w) == worker[w].pc = "idle"

\* requests go to the first free worker
Dispatch(w) == IsIdle(w) /\ (w = "w2" => ~IsIdle("w1"))

NoResponse == ""

-----------------------------------------------------------------------------
(* The token cache of amadeus.py.  A token is an opaque string; NoToken is *)
(* None (and an unset or empty setting).                                   *)

MaxExchanges == 3

NoToken == ""

\* settings.AMADEUS_ACCESS_TOKEN or the environment variable of that name
StaticToken == "static"

\* the tokens the provider issues, one per successful exchange
ProviderTokens ==
    <<"t1", "t2", "t3", "t4", "t5", "t6", "t7", "t8", "t9", "t10", "t11", "t12", "t13", "t14">>

\* line 57: the safety margin taken off expires_in
ExpiryMargin == 60

\* the configurations: a static token or none, client id and secret or not
TokenSettings ==
    [AMADEUS_ACCESS_TOKEN : {NoToken, StaticToken}, credentials : BOOLEAN]

\* the configuration of the request handlers' specifications
DefaultSettings == [AMADEUS_ACCESS_TOKEN |-> NoToken, credentials |-> TRUE]

\* the threads that call get_access_token
Callers == {"c1", "c2"}

IdleCaller == [pc |-> "idle", now |-> 0, token |-> NoToken, expires_in |-> 0]

\* what the exchange of lines 49-60 meets:
\*   ok              a JSON object with access_token and an integer expires_in
\*                   (0 when the field is absent)
\*   no_token        a JSON object without access_token
\*   bad_expires_in  expires_in is no integer: int() raises
\*   unparseable     the body is no JSON object
\*   http_error      urlopen raises HTTPError
\*   network_error   urlopen raises URLError or times out
ExchangeFailures == {"no_token", "bad_expires_in", "unparseable", "http_error", "network_error"}

ExpiresInValues == {0, 61, 62}

ExchangeOutcomes ==
    {[kind |-> "ok", expires_in |-> e] : e \in ExpiresInValues}
        \cup {[kind |-> k, expires_in |-> 0] : k \in ExchangeFailures}

\* the token cache before any call
TokenUnused ==
    /\ TOKEN = NoToken
    /\ EXPIRES_AT = 0
    /\ exchanges = 0
    /\ caller = [c \in Callers |-> IdleCaller]

-----------------------------------------------------------------------------
(* The provider calls of views.py (_amadeus_request_json).                 *)

\* line 145: attempts = 3
Attempts == 3

\* line 133: a session token older than this is refreshed
TokenMaxAge == 1500

\* a session without a token (amadeus_token_ts reads as 0)
NoSessionToken == [amadeus_token |-> NoToken, amadeus_token_ts |-> 0]

\* the bound on the number of provider calls made
MaxCalls == 1

\* pc is the position in the call, i the loop variable, sent the number of
\* requests sent so far, token the bearer token of the next request, now the
\* clock _ensure_token read, mw request.amadeus_token (set by the middleware,
\* when it is installed), calls the number of calls started
NoCall ==
    [pc |-> "idle", user |-> "", i |-> 0, sent |-> 0, token |-> NoToken, now |-> 0,
     mw |-> NoToken, calls |-> 0]

\* what one request to the provider meets:
\*   json         a response whose body parses as JSON
\*   not_json     a response whose body does not parse
\*   401          HTTPError with code 401
\*   500          HTTPError with any other code
\*   url_error    URLError (DNS, connect, timeout of the connection)
\*   other_error  any other exception (a timeout while reading, a bad encoding)
SendOutcomes == {"json", "not_json", "401", "500", "url_error", "other_error"}

\* no provider call has been made
ApiUnused ==
    /\ sessionToken = [u \in Users |-> NoSessionToken]
    /\ api = NoCall

-----------------------------------------------------------------------------
(* Currency conversion: the data of _get_rate_to_idr and _convert_to_idr   *)

\* the currencies converted: three of the fallback table, one that is not in
\* it, the display currency, and a missing currency
Currencies == {"USD", "THB", "JPY", "XXX", "IDR", ""}

\* lines 42-50: the fallback table (EUR, SGD, MYR, AUD are as USD here)
FallbackTable(c) ==
    CASE c = "USD" -> 16000
      [] c = "THB" -> 450
      [] c = "JPY" -> 110
      [] OTHER -> 0

\* line 28: a cached rate is reused while it is younger than this many seconds
FxMaxAge == 21600

\* no entry of _FX_CACHE
NoRate == [rate |-> 0, ts |-> 0]

\* the amounts converted: a decimal number, h its value in hundredths
\* (Decimal(str(amount)) is exact), a text that is no number, None
Dec(h) == [kind |-> "dec", h |-> h]
NotANumber == [kind |-> "text", h |-> 0]
NoneAmount == [kind |-> "none", h |-> 0]

\* what the request to the rate service meets: a rate, a rate of 0, or
\* anything else (an error, a timeout, a body without rates.IDR)
LiveRate(r) == [kind |-> "rate", rate |-> r]
LiveFails == [kind |-> "fails", rate |-> 0]

\* nothing returned yet
NoReturn == [kind |-> "none"]

ViewUnused ==
    /\ FX_CACHE = [c \in Currencies |-> NoRate]
    /\ returned = NoReturn

Init ==
    /\ clock = 1
    /\ session = [u \in Users |-> [results |-> NoResults, search_log_id |-> 0, flight_temp_id |-> 0]]
    /\ searchLogs = 0
    /\ flightTemps = <<>>
    /\ bookings = <<>>
    /\ passengers = <<>>
    /\ payments = <<>>
    /\ worker = [w \in Workers |-> Idle]
    /\ last = NoResponse
    /\ settings = DefaultSettings
    /\ TokenUnused
    /\ ApiUnused
    /\ ViewUnused

\* time passes
Tick ==
    /\ UNCHANGED <<tokenVars, apiVars, viewVars>>
    /\ clock < MaxTime
    /\ clock' = clock + 1
    /\ UNCHANGED <<session, searchLogs, flightTemps, bookings, passengers, payments, worker>>
    /\ last' = NoResponse

-----------------------------------------------------------------------------
(* get_access_token(force_refresh).  The call reads the clock and decides  *)
(* in one step; an exchange is a step of its own (the network call), and   *)
(* the two assignments that store its result are two steps, since nothing  *)
(* keeps another thread from running between them.                         *)

Max(a, b) == IF a >= b THEN a ELSE b

\* a call that never looks at the cache
get_access_token_path_NoCache(force_refresh) ==
    IF ~force_refresh /\ settings.AMADEUS_ACCESS_TOKEN # NoToken THEN "static"
    ELSE IF ~settings.credentials THEN "no_credentials"
    ELSE "exchange"

\* a call that returns the static token also when a refresh is forced
get_access_token_path_StaticFirst(force_refresh) ==
    IF settings.AMADEUS_ACCESS_TOKEN # NoToken THEN "static"
    ELSE IF ~force_refresh /\ TOKEN # NoToken /\ clock < EXPIRES_AT THEN "cached"
    ELSE IF ~settings.credentials THEN "no_credentials"
    ELSE "exchange"

\* a call that looks at the cache before it looks at the static token
get_access_token_path_CacheFirst(force_refresh) ==
    IF ~force_refresh /\ TOKEN # NoToken /\ clock < EXPIRES_AT THEN "cached"
    ELSE IF ~force_refresh /\ settings.AMADEUS_ACCESS_TOKEN # NoToken THEN "static"
    ELSE IF ~settings.credentials THEN "no_credentials"
    ELSE "exchange"

\* lines 16-38: what the call does
\*   static          return the configured token (lines 16-21)
\*   cached          return _TOKEN (lines 22-23)
\*   no_credentials  return None (lines 37-38)
\*   exchange        go on to the token request (lines 40-62)
get_access_token_path(force_refresh) ==
    IF ~force_refresh /\ settings.AMADEUS_ACCESS_TOKEN # NoToken THEN "static"
    ELSE IF ~force_refresh /\ TOKEN # NoToken /\ clock < EXPIRES_AT THEN "cached"
    ELSE IF ~settings.credentials THEN "no_credentials"
    ELSE "exchange"

\* calls that are in their token request
InExchange == {c \in Callers : caller[c].pc = "exchange"}

\* lines 13-47
get_access_token_begin(c, force_refresh) ==
    /\ caller[c].pc = "idle"
    /\ LET path == get_access_token_path(force_refresh) IN
       CASE path = "static" ->
                /\ last' = settings.AMADEUS_ACCESS_TOKEN
                /\ UNCHANGED caller
         [] path = "cached" ->
                /\ last' = TOKEN
                /\ UNCHANGED caller
         [] path = "no_credentials" ->
                /\ last' = "None"
                /\ UNCHANGED caller
         [] path = "exchange" ->
                /\ exchanges + Cardinality(InExchange) < MaxExchanges
                /\ caller' = [caller EXCEPT ![c] = [IdleCaller EXCEPT !.pc = "exchange",
                                                                       !.now = clock]]
                /\ last' = NoResponse
    /\ UNCHANGED <<clock, settings, TOKEN, EXPIRES_AT, exchanges>>
    /\ UNCHANGED <<appVars, apiVars, viewVars>>

\* a token request that drops the cached token when it fails
get_access_token_exchange_ClearOnFailure(c, outcome) ==
    /\ caller[c].pc = "exchange"
    /\ exchanges' = exchanges + 1
    /\ IF outcome.kind = "ok"
       THEN /\ TOKEN' = ProviderTokens[exchanges + 1]
            /\ caller' = [caller EXCEPT ![c].pc = "store",
                                        ![c].token = ProviderTokens[exchanges + 1],
                                        ![c].expires_in = outcome.expires_in]
            /\ last' = NoResponse
       ELSE /\ TOKEN' = NoToken
            /\ caller' = [caller EXCEPT ![c] = IdleCaller]
            /\ last' = "None"
    /\ UNCHANGED <<clock, settings, EXPIRES_AT>>
    /\ UNCHANGED <<appVars, apiVars, viewVars>>

\* lines 49-56 and 59-62: the token request; on success _TOKEN is assigned
get_access_token_exchange(c, outcome) ==
    /\ caller[c].pc = "exchange"
    /\ exchanges' = exchanges + 1
    /\ IF outcome.kind = "ok"
       THEN /\ TOKEN' = ProviderTokens[exchanges + 1]
            /\ caller' = [caller EXCEPT ![c].pc = "store",
                                        ![c].token = ProviderTokens[exchanges + 1],
                                        ![c].expires_in = outcome.expires_in]
            /\ last' = NoResponse
       ELSE /\ UNCHANGED TOKEN
            /\ caller' = [caller EXCEPT ![c] = IdleCaller]
            /\ last' = "None"
    /\ UNCHANGED <<clock, settings, EXPIRES_AT>>
    /\ UNCHANGED <<appVars, apiVars, viewVars>>

\* lines 57-58: _EXPIRES_AT is assigned and the token returned
get_access_token_store(c) ==
    /\ caller[c].pc = "store"
    /\ EXPIRES_AT' = caller[c].now + Max(caller[c].expires_in - ExpiryMargin, 0)
    /\ last' = caller[c].token
    /\ caller' = [caller EXCEPT ![c] = IdleCaller]
    /\ UNCHANGED <<clock, settings, TOKEN, exchanges>>
    /\ UNCHANGED <<appVars, apiVars, viewVars>>

-----------------------------------------------------------------------------
(* _amadeus_request_json.  A call is a sequence of steps: each call of     *)
(* get_access_token it makes is one step (run without interruption), each  *)
(* request sent to the provider is one step.                               *)

\* get_access_token run in one step: the exchange meets outcome o
NoExchange == [kind |-> "network_error", expires_in |-> 0]

get_access_token_returns(force_refresh, o) ==
    LET path == get_access_token_path(force_refresh) IN
    CASE path = "static" -> settings.AMADEUS_ACCESS_TOKEN
      [] path = "cached" -> TOKEN
      [] path = "no_credentials" -> NoToken
      [] path = "exchange" -> IF o.kind = "ok" THEN ProviderTokens[exchanges + 1] ELSE NoToken

get_access_token_effect(force_refresh, o) ==
    IF get_access_token_path(force_refresh) = "exchange"
    THEN /\ exchanges' = exchanges + 1
         /\ IF o.kind = "ok"
            THEN /\ TOKEN' = ProviderTokens[exchanges + 1]
                 /\ EXPIRES_AT' = clock + Max(o.expires_in - ExpiryMargin, 0)
            ELSE UNCHANGED <<TOKEN, EXPIRES_AT>>
    ELSE /\ o = NoExchange
         /\ UNCHANGED <<TOKEN, EXPIRES_AT, exchanges>>

\* _ensure_token, lines 126-133: the session token is used as it is
\* (a session without amadeus_token_ts reads it as 0, the epoch, which is
\* always too old)
SessionTokenFresh(u) ==
    /\ sessionToken[u].amadeus_token # NoToken
    /\ sessionToken[u].amadeus_token_ts # 0
    /\ ~(clock - sessionToken[u].amadeus_token_ts > TokenMaxAge)

\* lines 144-150 and 126-133: the call starts; _ensure_token reads the session
api_begin(u, mw) ==
    /\ api.pc = "idle"
    /\ api.calls < MaxCalls
    /\ api' = [NoCall EXCEPT !.user = u, !.mw = mw, !.now = clock,
                             !.calls = api.calls + 1,
                             !.pc = IF SessionTokenFresh(u) THEN "send" ELSE "ensure_forced",
                             !.token = IF SessionTokenFresh(u)
                                       THEN sessionToken[u].amadeus_token ELSE NoToken]
    /\ last' = NoResponse
    /\ UNCHANGED <<clock, sessionToken, tokenVars, appVars, viewVars>>

\* the positions at which the call is about to call get_access_token, and
\* those where it does so with force_refresh=True
TokenPcs == {"ensure_forced", "ensure_fallback", "first_fallback", "retry_forced", "retry_fallback"}
ForcedPcs == {"ensure_forced", "retry_forced"}

\* where the first attempt goes when _ensure_token obtained no new token
\* (lines 135-142 and 150): the stale session token, request.amadeus_token,
\* the static token, or one more get_access_token()
AfterEnsure(u) ==
    IF sessionToken[u].amadeus_token # NoToken
    THEN [pc |-> "send", token |-> sessionToken[u].amadeus_token]
    ELSE IF api.mw # NoToken THEN [pc |-> "send", token |-> api.mw]
    ELSE IF settings.AMADEUS_ACCESS_TOKEN # NoToken
    THEN [pc |-> "send", token |-> settings.AMADEUS_ACCESS_TOKEN]
    ELSE [pc |-> "first_fallback", token |-> NoToken]

\* a retry that leaves the session without the token it obtained
RetrySession_NotStored(ret) == NoSessionToken

\* lines 158-163: the session entries written before a retry is sent
RetrySession(ret) == [amadeus_token |-> ret, amadeus_token_ts |-> clock]

\* lines 134-141, 150 and 157-163: one call of get_access_token and what
\* follows it up to the next call or the request
api_token(o) ==
    /\ api.pc \in TokenPcs
    /\ get_access_token_effect(api.pc \in ForcedPcs, o)
    /\ LET ret == get_access_token_returns(api.pc \in ForcedPcs, o)
           u == api.user
       IN  CASE api.pc \in {"ensure_forced", "ensure_fallback"} /\ ret # NoToken ->
                    /\ sessionToken' = [sessionToken EXCEPT ![u] =
                            [amadeus_token |-> ret, amadeus_token_ts |-> api.now]]
                    /\ api' = [api EXCEPT !.pc = "send", !.token = ret]
             [] api.pc = "ensure_forced" /\ ret = NoToken ->
                    /\ api' = [api EXCEPT !.pc = "ensure_fallback"]
                    /\ UNCHANGED sessionToken
             [] api.pc = "ensure_fallback" /\ ret = NoToken ->
                    /\ api' = [api EXCEPT !.pc = AfterEnsure(u).pc, !.token = AfterEnsure(u).token]
                    /\ UNCHANGED sessionToken
             [] api.pc = "first_fallback" ->
                    /\ api' = [api EXCEPT !.pc = "send", !.token = ret]
                    /\ UNCHANGED sessionToken
             [] api.pc \in {"retry_forced", "retry_fallback"} /\ ret # NoToken ->
                    /\ sessionToken' = [sessionToken EXCEPT ![u] = RetrySession(ret)]
                    /\ api' = [api EXCEPT !.pc = "send", !.token = ret]
             [] api.pc = "retry_forced" /\ ret = NoToken ->
                    /\ api' = [api EXCEPT !.pc = "retry_fallback"]
                    /\ UNCHANGED sessionToken
             [] api.pc = "retry_fallback" /\ ret = NoToken ->
                    /\ api' = [api EXCEPT !.pc = "send", !.token = NoToken]
                    /\ UNCHANGED sessionToken
    /\ last' = NoResponse
    /\ UNCHANGED <<clock, settings, caller, appVars, viewVars>>

\* a variant that starts another attempt after any HTTP error status
SendResult_RetryAnyStatus(i, outcome) ==
    CASE outcome = "json" -> "json"
      [] outcome \in {"401", "500"} ->
            IF i + 1 < Attempts THEN "" ELSE "HTTPError_" \o outcome
      [] outcome = "url_error" -> "URLError"
      [] OTHER -> "Exception"

\* what the call raises or returns when the request meets outcome, "" when
\* the loop goes on (lines 168-196)
SendResult(i, outcome) ==
    CASE outcome = "json" -> "json"
      [] outcome = "401" -> IF i + 1 < Attempts THEN "" ELSE "HTTPError_401"
      [] outcome = "500" -> "HTTPError_500"
      [] outcome = "url_error" -> "URLError"
      [] OTHER -> "Exception"

\* lines 164-196: one request to the provider.  After a 401 the next
\* iteration starts by dropping the session token (lines 152-156).
api_send(outcome) ==
    /\ api.pc = "send"
    /\ IF SendResult(api.i, outcome) = ""
       THEN /\ api' = [api EXCEPT !.pc = "retry_forced", !.i = api.i + 1,
                                  !.sent = api.sent + 1, !.token = NoToken]
            /\ sessionToken' = [sessionToken EXCEPT ![api.user] = NoSessionToken]
            /\ last' = NoResponse
       ELSE /\ api' = [api EXCEPT !.pc = "idle", !.sent = api.sent + 1]
            /\ UNCHANGED sessionToken
            /\ last' = SendResult(api.i, outcome)
    /\ UNCHANGED <<clock, tokenVars, appVars, viewVars>>

-----------------------------------------------------------------------------
(* AmadeusTokenMiddleware (middleware.py), which runs before every view    *)

\* request.GET.get("token"): absent, or the value the client put in the URL
RequestTokens == {NoToken, "from_request"}

\* lines 10-12: a token in the query string is written to the session
Overridden(u, override) ==
    IF override # NoToken
    THEN [sessionToken EXCEPT ![u].amadeus_token = override]
    ELSE sessionToken

\* lines 10-13, up to the call of get_access_token that "or" makes when the
\* session and the settings hold no token
middleware_begin(u, override) ==
    /\ api.pc = "idle"
    /\ api.calls < MaxCalls
    /\ sessionToken' = Overridden(u, override)
    /\ LET held == IF Overridden(u, override)[u].amadeus_token # NoToken
                   THEN Overridden(u, override)[u].amadeus_token
                   ELSE settings.AMADEUS_ACCESS_TOKEN
       IN  api' = [NoCall EXCEPT !.user = u, !.calls = api.calls, !.mw = held,
                                 !.pc = IF held # NoToken THEN "view" ELSE "mw_token"]
    /\ last' = NoResponse
    /\ UNCHANGED <<clock, tokenVars, appVars, viewVars>>

\* lines 13-17: get_access_token(), then get_access_token(force_refresh=True)
\* when it returned nothing; request.amadeus_token is set when a token was found
middleware_token(o) ==
    /\ api.pc \in {"mw_token", "mw_forced"}
    /\ get_access_token_effect(api.pc = "mw_forced", o)
    /\ LET ret == get_access_token_returns(api.pc = "mw_forced", o)
       IN  api' = [api EXCEPT !.mw = ret,
                              !.pc = IF ret # NoToken \/ api.pc = "mw_forced"
                                     THEN "view" ELSE "mw_forced"]
    /\ last' = NoResponse
    /\ UNCHANGED sessionToken
    /\ UNCHANGED <<clock, settings, caller, appVars, viewVars>>

\* line 18: self.get_response(request), for a view that calls the provider:
\* the call starts as in api_begin, with the request.amadeus_token just set
view_begin ==
    /\ api.pc = "view"
    /\ api' = [NoCall EXCEPT !.user = api.user, !.mw = api.mw, !.now = clock,
                             !.calls = api.calls + 1,
                             !.pc = IF SessionTokenFresh(api.user)
                                    THEN "send" ELSE "ensure_forced",
                             !.token = IF SessionTokenFresh(api.user)
                                       THEN sessionToken[api.user].amadeus_token
                                       ELSE NoToken]
    /\ last' = NoResponse
    /\ UNCHANGED <<clock, sessionToken, tokenVars, appVars, viewVars>>

-----------------------------------------------------------------------------
(* flight_results: a search that succeeds stores the (filtered) result set *)
(* in the session, creates a FlightSearchLog and points the session to it. *)
(* The log is created inside try/except: when it fails (logok = FALSE, an  *)
(* unparseable departure date) the pointer keeps its previous value.  A    *)
(* search that fails changes none of the variables.                        *)

flight_results(u, rs, logok) ==
    /\ UNCHANGED <<tokenVars, apiVars, viewVars>>
    /\ logok => searchLogs < MaxLogs
    /\ searchLogs' = IF logok THEN searchLogs + 1 ELSE searchLogs
    /\ session' = [session EXCEPT ![u] =
            [@ EXCEPT !.results = rs,
                      !.search_log_id = IF logok THEN searchLogs + 1 ELSE @]]
    /\ UNCHANGED <<clock, flightTemps, bookings, passengers, payments, worker>>
    /\ last' = NoResponse

-----------------------------------------------------------------------------
(* _get_rate_to_idr and _convert_to_idr (lines 22-65)                      *)

\* a cache whose entries are reused up to the age of six hours
FxCached_AtSixHoursReused(c) == FX_CACHE[c] # NoRate /\ clock - FX_CACHE[c].ts <= FxMaxAge

\* lines 27-28: the cached rate is reused
FxCached(c) == FX_CACHE[c] # NoRate /\ clock - FX_CACHE[c].ts < FxMaxAge

\* lines 23-33: the request to the rate service is made
FxFetched(c) == c \notin {"", "IDR"} /\ ~FxCached(c)

\* lines 23-55: the rate returned
get_rate_to_idr(c, live) ==
    IF c = "" \/ c = "IDR" THEN 1
    ELSE IF FxCached(c) THEN FX_CACHE[c].rate
    ELSE IF live.kind = "rate" /\ live.rate # 0 THEN live.rate
    ELSE IF FallbackTable(c) # 0 THEN FallbackTable(c)
    ELSE 1

\* lines 38 and 53: the rate fetched and the rate of the table are cached
FxCacheAfter(c, live) ==
    IF c = "" \/ c = "IDR" \/ FxCached(c) THEN FX_CACHE
    ELSE IF (live.kind = "rate" /\ live.rate # 0) \/ FallbackTable(c) # 0
    THEN [FX_CACHE EXCEPT ![c] = [rate |-> get_rate_to_idr(c, live), ts |-> clock]]
    ELSE FX_CACHE

\* Decimal.quantize(Decimal("1")) of n/100, n >= 0: the nearest whole number,
\* the even one of two that are equally near (ROUND_HALF_EVEN)
Quantize(n) ==
    LET q == n \div 100
        r == n % 100
    IN  IF r > 50 \/ (r = 50 /\ q % 2 = 1) THEN q + 1 ELSE q

\* a format that does not group the digits
Format_NoGrouping(n) == <<n>>

\* line 64: f"{idr:,.0f}".replace(",", "."), as the sequence of the groups
\* of three digits the points separate: 1600000 is "1.600.000", <<1, 600, 0>>
RECURSIVE Format(_)
Format(n) == IF n < 1000 THEN <<n>> ELSE Append(Format(n \div 1000), n % 1000)

\* lines 57-65; fetched records whether the rate service was contacted
convert_to_idr(amount, currency, live) ==
    /\ IF amount.kind # "dec"
       THEN /\ returned' = [kind |-> "none_none", fetched |-> FALSE]
            /\ live = LiveFails
            /\ UNCHANGED FX_CACHE
       ELSE /\ LET idr == Quantize(amount.h * get_rate_to_idr(currency, live)) IN
               returned' = [kind |-> "pair", idr |-> idr, s |-> Format(idr),
                            fetched |-> FxFetched(currency)]
            /\ ~FxFetched(currency) => live = LiveFails
            /\ FX_CACHE' = FxCacheAfter(currency, live)
    /\ last' = NoResponse
    /\ UNCHANGED <<clock, tokenVars, apiVars, appVars>>

-----------------------------------------------------------------------------
(* Provider responses and the texts made of them.  A Python string is a    *)
(* sequence of segments, the pieces between the occurrences of ": ": what  *)
(* the handlers do with an error text is split it at ": " and parse a part. *)

\* the error bodies a provider call is answered with, by their errors array:
\*   system_title  one error, title "A system error has occurred"
\*   code_141      one error, code 141
\*   status_500    one error, status 500
\*   expired       one error, code 38192
\*   seat          one error, code 34651
\*   seat_expired  two errors, codes 34651 and 38192
\*   other         one error, code 4926
\*   incomplete    one error, code 32171
\*   invalid_token one error, code 38190, title "Invalid access token"
\*   no_object     a JSON body that is no object (a list)
\*   html          a body that is no JSON
\* spaced: the JSON is written with ": " after the keys (json.dumps does so)
ErrorArrays ==
    {"system_title", "code_141", "status_500", "expired", "seat", "seat_expired", "other",
     "incomplete", "invalid_token", "no_object", "html"}

ErrorBodies == [errors : ErrorArrays, spaced : BOOLEAN]

\* the errors array of a parsed body
Errors(errors) ==
    CASE errors = "system_title" ->
            <<[title |-> "A system error has occurred", code |-> "", status |-> ""]>>
      [] errors = "code_141" -> <<[title |-> "", code |-> "141", status |-> ""]>>
      [] errors = "status_500" -> <<[title |-> "", code |-> "", status |-> "500"]>>
      [] errors = "expired" -> <<[title |-> "", code |-> "38192", status |-> "401"]>>
      [] errors = "seat" -> <<[title |-> "", code |-> "34651", status |-> "400"]>>
      [] errors = "seat_expired" ->
            <<[title |-> "", code |-> "34651", status |-> "400"],
              [title |-> "", code |-> "38192", status |-> "401"]>>
      [] errors = "other" -> <<[title |-> "", code |-> "4926", status |-> "400"]>>
      [] errors = "incomplete" -> <<[title |-> "", code |-> "32171", status |-> "400"]>>
      [] errors = "invalid_token" ->
            <<[title |-> "Invalid access token", code |-> "38190", status |-> "401"]>>
      [] OTHER -> <<>>

\* str.upper() on the titles above
Upper(t) ==
    IF t = "A system error has occurred" THEN "A SYSTEM ERROR HAS OCCURRED" ELSE t

\* str.lower() on the titles above
Lower(t) ==
    CASE t = "A system error has occurred" -> "a system error has occurred"
      [] t = "Invalid access token" -> "invalid access token"
      [] OTHER -> t

\* a literal piece of text, with the number formatted into it
Lit(text, code) == [lit |-> text, code |-> code, errors |-> "", part |-> 0]

\* the text of a body: the ": " inside a spaced body cuts it in segments
Segs(body) ==
    IF body.spaced
    THEN <<[lit |-> "", code |-> "", errors |-> body.errors, part |-> 1],
           [lit |-> "", code |-> "", errors |-> body.errors, part |-> 2]>>
    ELSE <<[lit |-> "", code |-> "", errors |-> body.errors, part |-> 0]>>

\* json.loads: the errors array of the body the text is, "ValueError" when
\* the text is no whole JSON body
json_loads(text) ==
    IF \E body \in ErrorBodies : body.errors # "html" /\ text = Segs(body)
    THEN text[1].errors
    ELSE "ValueError"

\* urllib.error.HTTPError.__str__: 'HTTP Error %s: %s' % (self.code, self.msg)
HTTPError_str(e) == <<Lit("HTTP Error", e.code)>> \o Segs(e.msg)

\* lines 319-326 and 988-995: the test made on a parsed errors array
FallbackTest(errors) ==
    \E i \in 1..Len(Errors(errors)) :
        \/ Upper(Errors(errors)[i].title) = "A SYSTEM ERROR HAS OCCURRED"
        \/ Errors(errors)[i].code = "141"
        \/ Errors(errors)[i].status = "500"

\* what "except Exception: pass" swallows in the classification: json.loads
\* raised ValueError, or j.get raised AttributeError on a value that is no
\* object (lines 327-328, 389-390, 835-836, 996-997)
Swallowed(j) == j \in {"ValueError", "no_object"}

\* lines 310-328 and 985-997: fallback_needed, from the text str(e)
fallback_needed(e) ==
    LET j == json_loads(HTTPError_str(e)) IN
    ~Swallowed(j) /\ FallbackTest(j)

\* the codes of a parsed errors array (lines 375 and 827)
Codes(errors) == {Errors(errors)[i].code : i \in 1..Len(Errors(errors))}

FriendlyExpired == "Sesi token kadaluarsa. Silakan coba lagi."
FriendlySeat == "Kursi tidak tersedia pada segmen yang dipilih."
FriendlyIncomplete == "Data wajib belum lengkap."
FriendlyFormat == "Format data tidak valid pada permintaan."
FriendlyInvalidToken == "Token akses tidak valid."
NoFriendly == ""

\* lines 380-383: a title (or detail) that holds "invalid access token"
InvalidTokenTest(errors) ==
    \E i \in 1..Len(Errors(errors)) : Lower(Errors(errors)[i].title) = "invalid access token"

\* lines 370-390: the friendly message of flight_results.  split(": ", 1)[1]
\* is the text after the first segment; an error text is <<>> when error is None.
friendly_error_search(error) ==
    IF Len(error) < 2 \/ error[1].lit # "HTTP" THEN NoFriendly
    ELSE LET j == json_loads(Tail(error)) IN
         IF Swallowed(j) THEN NoFriendly
         ELSE IF "38192" \in Codes(j) THEN FriendlyExpired
         ELSE IF InvalidTokenTest(j) THEN FriendlyInvalidToken
         ELSE NoFriendly

\* a message for every error array that parses
friendly_error_booking_Generic(error) ==
    IF Len(error) < 1 \/ error[1].lit # "HTTP" THEN NoFriendly
    ELSE LET j == json_loads(<<error[Len(error)]>>) IN
         IF Swallowed(j) THEN NoFriendly
         ELSE IF "34651" \in Codes(j) THEN FriendlySeat
         ELSE IF "38192" \in Codes(j) THEN FriendlyExpired
         ELSE FriendlyFormat

\* lines 821-837: the friendly message of confirm_booking, whose error text
\* is "HTTP <code>: <body>".  split(": ")[-1] is the last segment.
friendly_error_booking(error) ==
    IF Len(error) < 1 \/ error[1].lit # "HTTP" THEN NoFriendly
    ELSE LET j == json_loads(<<error[Len(error)]>>) IN
         IF Swallowed(j) THEN NoFriendly
         ELSE IF "34651" \in Codes(j) THEN FriendlySeat
         ELSE IF "32171" \in Codes(j) THEN FriendlyIncomplete
         ELSE IF "477" \in Codes(j) THEN FriendlyFormat
         ELSE IF "38192" \in Codes(j) THEN FriendlyExpired
         ELSE NoFriendly

-----------------------------------------------------------------------------
(* flight_results with its provider calls (lines 212-391).                 *)

\* the offers of a provider response:
\*   o1, o2      bookable offers (o2 carries no numberOfBookableSeats)
\*   sold_out    numberOfBookableSeats is 0
\*   mismatch    no validating airline operates a segment
\*   bad_price   the price field is a string: price.get raises at line 274
RawOffers == {"o1", "o2", "sold_out", "mismatch", "bad_price"}

\* _analyze_offer, lines 106-123
bookableSeats(o) ==
    CASE o = "sold_out" -> [present |-> TRUE, n |-> 0]
      [] o = "o2" -> [present |-> FALSE, n |-> 0]
      [] OTHER -> [present |-> TRUE, n |-> 9]

validatingMismatch(o) == o = "mismatch"

AnnotateRaises(o) == o = "bad_price"

\* lines 286-290: the offer is kept
Kept(o) ==
    /\ ~(bookableSeats(o).present /\ bookableSeats(o).n <= 0)
    /\ ~validatingMismatch(o)

\* lines 271-295: data["data"] after the annotation and the filter; an
\* exception in either loop leaves the list as the provider sent it
Filtered(data) ==
    IF \E i \in 1..Len(data) : AnnotateRaises(data[i]) THEN data ELSE SelectSeq(data, Kept)

\* what _amadeus_request_json returns or raises
NoData == <<>>
NoBody == [errors |-> "html", spaced |-> FALSE]
Raised(kind) == [kind |-> kind, data |-> NoData, code |-> "", msg |-> NoBody]
Json(data) == [kind |-> "json", data |-> data, code |-> "", msg |-> NoBody]
HTTPError(code, msg) == [kind |-> "HTTPError", data |-> NoData, code |-> code, msg |-> msg]

\* the call was not made
NotCalled == Raised("not_called")

\* the body parses to a JSON value that is no object (null)
JsonOther == Raised("json_other")

\* no error text
NoError == <<>>

\* lines 362-368: context["error"]
ErrorText(outcome) ==
    CASE outcome.kind = "HTTPError" -> <<Lit("HTTP", outcome.code)>> \o HTTPError_str(outcome)
      [] outcome.kind = "URLError" -> <<Lit("Network error", ""), Lit("reason", "")>>
      [] OTHER -> <<Lit("str(e)", "")>>

\* the context rendered: calls is the number of search calls made
Context(calls, results, error) ==
    [kind |-> "results", calls |-> calls, results |-> results, error |-> error,
     friendly_error |-> friendly_error_search(error)]

\* primary: the outcome of the v2 call; fallback: the outcome of the v1 call,
\* NotCalled when it is not made; logok: the FlightSearchLog insert succeeds
flight_results_request(u, primary, fallback, logok) ==
    /\ UNCHANGED <<tokenVars, apiVars, FX_CACHE>>
    /\ primary.kind # "not_called"
    /\ (primary.kind = "HTTPError" /\ fallback_needed(primary)) <=> fallback.kind # "not_called"
    /\ IF primary.kind \in {"json", "json_other"}
       THEN /\ logok => searchLogs < MaxLogs
            /\ searchLogs' = IF logok THEN searchLogs + 1 ELSE searchLogs
            /\ session' = [session EXCEPT ![u] =
                    [@ EXCEPT !.results = Filtered(primary.data),
                              !.search_log_id = IF logok THEN searchLogs + 1 ELSE @]]
            /\ returned' = Context(1, Filtered(primary.data),
                                   IF primary.kind = "json" /\ Filtered(primary.data) = NoData
                                   THEN <<Lit("Tidak ada kursi tersedia", "")>> ELSE NoError)
       ELSE /\ logok
            /\ UNCHANGED searchLogs
            /\ IF fallback.kind \in {"json", "json_other"}
               THEN /\ session' = [session EXCEPT ![u].results = fallback.data]
                    /\ returned' = Context(2, fallback.data, NoError)
               ELSE /\ UNCHANGED session
                    /\ returned' = Context(IF fallback.kind = "not_called" THEN 1 ELSE 2,
                                           NoData, ErrorText(primary))
    /\ UNCHANGED <<clock, flightTemps, bookings, passengers, payments, worker>>
    /\ last' = NoResponse

\* lines 395-442: price_offer, for a request with a token and an offer
price_offer(outcome) ==
    /\ outcome.kind # "not_called"
    /\ returned' = [kind |-> "priced",
                    priced |-> outcome.kind \in {"json", "json_other"},
                    error |-> IF outcome.kind \in {"json", "json_other"}
                              THEN NoError ELSE ErrorText(outcome)]
    /\ last' = NoResponse
    /\ UNCHANGED <<clock, tokenVars, apiVars, appVars, FX_CACHE>>

\* line 972-978 and 1033: the offers are sorted by their first departure
DepartureRank(o) ==
    CASE o = "o2" -> 1
      [] o = "o1" -> 2
      [] OTHER -> 3

\* lines 1021-1033: the offers of the summary
Cleaned(data) ==
    SortSeq(SelectSeq(data, Kept), LAMBDA a, b : DepartureRank(a) < DepartureRank(b))

\* lines 917-1100: availability_api.  data.get at line 1021 is outside every
\* try: a body that parses to no object makes it raise.
availability_api(primary, fallback) ==
    /\ primary.kind # "not_called"
    /\ (primary.kind = "HTTPError" /\ fallback_needed(primary)) <=> fallback.kind # "not_called"
    /\ LET data == IF primary.kind = "HTTPError" THEN fallback ELSE primary IN
       returned' =
          CASE data.kind = "json" ->
                  [kind |-> "availability", status |-> "200", items |-> Cleaned(data.data),
                   error |-> NoError]
            [] data.kind = "json_other" -> [kind |-> "unhandled_error"]
            [] OTHER ->
                  [kind |-> "availability", status |-> "400", items |-> NoData,
                   error |-> ErrorText(primary)]
    /\ last' = NoResponse
    /\ UNCHANGED <<clock, tokenVars, apiVars, appVars, FX_CACHE>>

-----------------------------------------------------------------------------
(* booking_page (GET): the selection of one offer of the last search.      *)

\* a status that takes the index as a position counted from one
booking_page_status_OneBased(u, idx) ==
    LET r == session[u].results IN
    IF idx.kind = "none" THEN 400
    ELSE IF idx.kind = "bad" THEN 400
    ELSE IF r = <<>> THEN 400
    ELSE IF idx.n <= 0 \/ idx.n >= Len(r) THEN 404
    ELSE 200

\* the HTTP status of the selection
booking_page_status(u, idx) ==
    LET r == session[u].results IN
    IF idx.kind = "none" THEN 400
    ELSE IF idx.kind = "bad" THEN 400
    ELSE IF r = <<>> THEN 400
    ELSE IF idx.n < 0 \/ idx.n >= Len(r) THEN 404
    ELSE 200

\* a handler that looks at the session before it looks at the index
booking_page_error_ResultsFirst(u, idx) ==
    LET r == session[u].results IN
    IF r = <<>> THEN "no_active_search"
    ELSE IF idx.kind = "none" THEN "missing_param"
    ELSE IF idx.kind = "bad" THEN "invalid_param"
    ELSE IF idx.n < 0 \/ idx.n >= Len(r) THEN "not_found"
    ELSE ""

\* a handler without the check of the session's results
booking_page_error_NoResultsCheck(u, idx) ==
    LET r == session[u].results IN
    IF idx.kind = "none" THEN "missing_param"
    ELSE IF idx.kind = "bad" THEN "invalid_param"
    ELSE IF idx.n < 0 \/ idx.n >= Len(r) THEN "not_found"
    ELSE ""

\* the error the selection reports, "" when it succeeds:
\*   missing_param     "Parameter idx wajib disertakan."          (400)
\*   invalid_param     "Parameter idx tidak valid."               (400)
\*   no_active_search  "Tidak ada hasil pencarian aktif. ..."     (400)
\*   not_found         "Penawaran tidak ditemukan."               (404)
booking_page_error(u, idx) ==
    LET r == session[u].results IN
    IF idx.kind = "none" THEN "missing_param"
    ELSE IF idx.kind = "bad" THEN "invalid_param"
    ELSE IF r = <<>> THEN "no_active_search"
    ELSE IF idx.n < 0 \/ idx.n >= Len(r) THEN "not_found"
    ELSE ""

\* FlightTemp.objects.create succeeds: price_total fits DecimalField(10, 2)
FlightTempStorable(o) == Storable(OfferTotal(o))

\* lines 495-535: the FlightTemp of the offer selected
booking_page_create(u, idx) ==
    LET offer == session[u].results[idx.n + 1]
        sl_id == session[u].search_log_id
    IN  IF sl_id # 0 /\ FlightTempStorable(offer)
        THEN /\ Len(flightTemps) < MaxTemps
             /\ flightTemps' = Append(flightTemps, [search |-> sl_id, offer |-> offer])
             /\ session' = [session EXCEPT ![u].flight_temp_id = Len(flightTemps) + 1]
        ELSE \* no search log, or the create raised: logged, pointer unchanged
             /\ UNCHANGED <<flightTemps, session>>

\* a selection that succeeds; the page rendered is not kept
booking_page(u, idx) ==
    /\ UNCHANGED <<tokenVars, apiVars, viewVars>>
    /\ booking_page_status(u, idx) = 200
    /\ booking_page_create(u, idx)
    /\ UNCHANGED <<clock, searchLogs, bookings, passengers, payments, worker>>
    /\ last' = NoResponse

\* any selection, answered with the offer rendered (status 200) or with the
\* error reported (status 400 or 404)
booking_page_answer(u, idx) ==
    /\ UNCHANGED <<tokenVars, apiVars, viewVars>>
    /\ IF booking_page_status(u, idx) = 200
       THEN /\ booking_page_create(u, idx)
            /\ last' = session[u].results[idx.n + 1]
       ELSE /\ UNCHANGED <<flightTemps, session>>
            /\ last' = booking_page_error(u, idx)
    /\ UNCHANGED <<clock, searchLogs, bookings, passengers, payments, worker>>

-----------------------------------------------------------------------------
(* confirm_booking *)

\* lines 562-568: the offer of the posted idx in the session's results
ResolveOffer(u, idx) ==
    LET r == session[u].results IN
    IF r # <<>> /\ idx.kind # "none" THEN PyIndex(r, idx) ELSE NoOffer

\* lines 574-624: pricing is attempted only with an offer (and a token), so
\* without an offer priced is None
PricingPossible(offer, outcome) == offer = NoOffer => outcome = "none"

\* lines 626-636: price_total, from the pricing response when it has a data
\* object, else from the offer; None when an exception ends the block
PriceTotal(offer, priced) ==
    IF offer = NoOffer THEN NoPrice
    ELSE CASE priced \in {"ok", "ok_huge"} -> QuotedTotal(offer, priced)
           [] priced \in {"ok_malformed", "ok_noprice"} -> NoPrice
           [] OTHER -> OfferTotal(offer)

PriceCurrency(offer, priced) ==
    IF PriceTotal(offer, priced) = NoPrice THEN "" ELSE OfferCurrency(offer)

\* line 637 was reached, so the local price_idr_str that line 839 reads exists
PriceStrBound(offer, priced) ==
    offer # NoOffer /\ priced # "ok_malformed"

\* lines 839-840: the response, here without a booking reference; reading an
\* unbound local is an unhandled error
RenderOutcome(offer, priced) ==
    IF PriceStrBound(offer, priced) THEN "rendered" ELSE "unhandled_error"

\* a guard that asks for the selection only
CreationGuard_TempOnly(temp, offer, priced) == temp # 0

\* line 649: if temp and price_total and currency
CreationGuard(temp, offer, priced) ==
    temp # 0 /\ PriceTotal(offer, priced) # NoPrice /\ PriceCurrency(offer, priced) # ""

\* a column without the unique constraint
RefTaken_Never(ref) == FALSE

\* Booking.booking_reference is unique=True: the insert raises IntegrityError
RefTaken(ref) == \E i \in 1..Len(bookings) : bookings[i].booking_reference = ref

\* line 653: ref = f"BK{int(time.time())}"
NewReference == clock

\* lines 550-660: the request up to Booking.objects.create.  Everything before
\* the insert is local: the session is read, the pricing call is made.
confirm_booking_begin(w, u, idx, priced) ==
    /\ UNCHANGED <<tokenVars, apiVars, viewVars>>
    /\ Dispatch(w)
    /\ PricingPossible(ResolveOffer(u, idx), priced)
    /\ LET offer == ResolveOffer(u, idx)
           temp == session[u].flight_temp_id
       IN  IF ~CreationGuard(temp, offer, priced)
           THEN \* nothing is created; lines 839-840 answer
                /\ last' = RenderOutcome(offer, priced)
                /\ UNCHANGED <<worker, bookings>>
           ELSE IF RefTaken(NewReference)
           THEN \* the except of line 674 swallows the IntegrityError;
                \* created_booking_ref stays None
                /\ last' = "rendered"
                /\ UNCHANGED <<worker, bookings>>
           ELSE /\ bookings' = Append(bookings,
                        [user |-> u, flight |-> temp,
                         booking_reference |-> NewReference, status |-> "pending"])
                /\ worker' = [worker EXCEPT ![w] =
                        [Idle EXCEPT !.pc = "cb_passenger", !.offer = offer,
                                     !.priced = priced, !.bid = Len(bookings) + 1]]
                /\ last' = NoResponse
    /\ UNCHANGED <<clock, session, searchLogs, flightTemps, passengers, payments>>

\* lines 574-624: the pricing call.  first: what the first request meets
\* (the outcomes of SendOutcomes, "not_sent" without token or offer);
\* refreshed: get_access_token(force_refresh=True) returns a token after a
\* 401; retry: what the second request meets.  The retry runs inside the
\* handler of "except HTTPError" and has handlers for HTTPError and URLError
\* only: anything else it raises leaves confirm_booking.
pricing_call(first, refreshed, retry) ==
    CASE first = "not_sent" -> "none"
      [] first = "json" -> "priced"
      [] first = "401" /\ refreshed ->
            CASE retry = "json" -> "priced"
              [] retry \in {"401", "500", "url_error"} -> "error"
              [] OTHER -> "raise"
      [] OTHER -> "error"

\* the values of the local priced after the call
PricedAfter(result) ==
    IF result = "priced" THEN PricedOutcomes \ {"none"} ELSE {"none"}

\* lines 550-660 with the pricing call: confirm_booking_begin, or the
\* exception that leaves the handler before anything is written
confirm_booking_call(w, u, idx, first, refreshed, retry) ==
    /\ ResolveOffer(u, idx) = NoOffer => first = "not_sent"
    /\ first # "401" => ~refreshed
    /\ refreshed <=> retry # "not_sent"
    /\ IF pricing_call(first, refreshed, retry) = "raise"
       THEN /\ Dispatch(w)
            /\ last' = "unhandled_error"
            /\ returned' = [kind |-> "unhandled_error"]
            /\ UNCHANGED <<clock, tokenVars, apiVars, FX_CACHE, session, searchLogs,
                           flightTemps, bookings, passengers, payments, worker>>
       ELSE \E priced \in PricedAfter(pricing_call(first, refreshed, retry)) :
                confirm_booking_begin(w, u, idx, priced)

\* lines 661-667: the insert raises when name or birth_date is missing or
\* invalid (paxok = FALSE)
confirm_booking_passenger(w, paxok) ==
    /\ UNCHANGED <<tokenVars, apiVars, viewVars>>
    /\ worker[w].pc = "cb_passenger"
    /\ IF paxok
       THEN /\ passengers' = Append(passengers, [booking |-> worker[w].bid])
            /\ worker' = [worker EXCEPT ![w].pc = "cb_payment"]
            /\ last' = NoResponse
       ELSE /\ UNCHANGED passengers
            /\ worker' = [worker EXCEPT ![w] = Idle]
            /\ last' = "rendered_ref"
    /\ UNCHANGED <<clock, session, searchLogs, flightTemps, bookings, payments>>

\* lines 668-673, then the response
confirm_booking_payment(w) ==
    /\ UNCHANGED <<tokenVars, apiVars, viewVars>>
    /\ worker[w].pc = "cb_payment"
    /\ LET amount == PriceTotal(worker[w].offer, worker[w].priced)
           currency == PriceCurrency(worker[w].offer, worker[w].priced)
       IN  IF Storable(amount)
           THEN payments' = Append(payments,
                    [booking |-> worker[w].bid, amount |-> amount,
                     currency |-> currency, status |-> "pending"])
           ELSE UNCHANGED payments
    /\ worker' = [worker EXCEPT ![w] = Idle]
    /\ last' = "rendered_ref"
    /\ UNCHANGED <<clock, session, searchLogs, flightTemps, bookings, passengers>>

-----------------------------------------------------------------------------
(* confirm_payment *)

\* a lookup by reference alone
FindBooking_AnyUser(ref, u) ==
    LET S == {i \in 1..Len(bookings) : bookings[i].booking_reference = ref}
    IN  IF S = {} THEN 0 ELSE CHOOSE i \in S : \A j \in S : i <= j

\* Booking.objects.filter(booking_reference=ref, user=request.user).first()
FindBooking(ref, u) ==
    LET S == {i \in 1..Len(bookings) :
                bookings[i].booking_reference = ref /\ bookings[i].user = u}
    IN  IF S = {} THEN 0 ELSE CHOOSE i \in S : \A j \in S : i <= j

\* getattr(b, "payment", None)
FindPayment(bid) ==
    LET S == {i \in 1..Len(payments) : payments[i].booking = bid}
    IN  IF S = {} THEN 0 ELSE CHOOSE i \in S : \A j \in S : i <= j

\* a confirmation that never compares amounts
AmountRejected_Never(amount, recorded) == FALSE

\* line 1264: if amt is not None and p.amount != amt
AmountRejected(amount, recorded) == amount.kind # "none" /\ recorded # amount.v

\* the checks without the one for a failed payment
confirm_payment_check_NoFailed(u, ref, status_in, amount) ==
    IF amount.kind = "bad" THEN "InvalidAmount"
    ELSE IF ref = NoRef THEN "MissingRef"
    ELSE LET b == FindBooking(ref, u) IN
    IF b = 0 THEN "NotFound"
    ELSE LET p == FindPayment(b) IN
    IF p = 0 THEN "NoPayment"
    ELSE IF payments[p].status = "paid" /\ bookings[b].status = "confirmed"
         THEN "already_confirmed"
    ELSE IF status_in # "paid" THEN "StatusMismatch"
    ELSE IF AmountRejected(amount, payments[p].amount) THEN "AmountMismatch"
    ELSE "proceed"

\* the checks without the short-circuit for a confirmed booking
confirm_payment_check_NoShortCircuit(u, ref, status_in, amount) ==
    IF amount.kind = "bad" THEN "InvalidAmount"
    ELSE IF ref = NoRef THEN "MissingRef"
    ELSE LET b == FindBooking(ref, u) IN
    IF b = 0 THEN "NotFound"
    ELSE LET p == FindPayment(b) IN
    IF p = 0 THEN "NoPayment"
    ELSE IF payments[p].status = "failed" THEN "AlreadyFailed"
    ELSE IF status_in # "paid" THEN "StatusMismatch"
    ELSE IF AmountRejected(amount, payments[p].amount) THEN "AmountMismatch"
    ELSE "proceed"

\* the checks with the reported status looked at before the Payment's
confirm_payment_check_StatusFirst(u, ref, status_in, amount) ==
    IF amount.kind = "bad" THEN "InvalidAmount"
    ELSE IF ref = NoRef THEN "MissingRef"
    ELSE LET b == FindBooking(ref, u) IN
    IF b = 0 THEN "NotFound"
    ELSE LET p == FindPayment(b) IN
    IF p = 0 THEN "NoPayment"
    ELSE IF status_in # "paid" THEN "StatusMismatch"
    ELSE IF payments[p].status = "failed" THEN "AlreadyFailed"
    ELSE IF payments[p].status = "paid" /\ bookings[b].status = "confirmed"
         THEN "already_confirmed"
    ELSE IF AmountRejected(amount, payments[p].amount) THEN "AmountMismatch"
    ELSE "proceed"

\* lines 1239-1266: the checks, in the order of the code
confirm_payment_check(u, ref, status_in, amount) ==
    IF amount.kind = "bad" THEN "InvalidAmount"
    ELSE IF ref = NoRef THEN "MissingRef"
    ELSE LET b == FindBooking(ref, u) IN
    IF b = 0 THEN "NotFound"
    ELSE LET p == FindPayment(b) IN
    IF p = 0 THEN "NoPayment"
    ELSE IF payments[p].status = "failed" THEN "AlreadyFailed"
    ELSE IF payments[p].status = "paid" /\ bookings[b].status = "confirmed"
         THEN "already_confirmed"
    ELSE IF status_in # "paid" THEN "StatusMismatch"
    ELSE IF AmountRejected(amount, payments[p].amount) THEN "AmountMismatch"
    ELSE "proceed"

\* a handler that records the failure a gateway reports
confirm_payment_begin_FailOnStatus(w, u, ref, status_in, amount) ==
    /\ UNCHANGED <<tokenVars, apiVars, viewVars>>
    /\ Dispatch(w)
    /\ LET res == confirm_payment_check(u, ref, status_in, amount) IN
       /\ IF res = "proceed"
          THEN /\ worker' = [worker EXCEPT ![w] =
                       [Idle EXCEPT !.pc = "cp_write", !.bid = FindBooking(ref, u), !.amt = amount]]
               /\ last' = NoResponse
          ELSE /\ UNCHANGED worker
               /\ last' = res
       /\ payments' = IF res = "StatusMismatch"
                      THEN [payments EXCEPT ![FindPayment(FindBooking(ref, u))].status = "failed"]
                      ELSE payments
    /\ UNCHANGED <<clock, session, searchLogs, flightTemps, bookings, passengers>>

\* a handler that cancels the Booking of a payment of the wrong amount
confirm_payment_begin_CancelOnAmount(w, u, ref, status_in, amount) ==
    /\ UNCHANGED <<tokenVars, apiVars, viewVars>>
    /\ Dispatch(w)
    /\ LET res == confirm_payment_check(u, ref, status_in, amount) IN
       /\ IF res = "proceed"
          THEN /\ worker' = [worker EXCEPT ![w] =
                       [Idle EXCEPT !.pc = "cp_write", !.bid = FindBooking(ref, u), !.amt = amount]]
               /\ last' = NoResponse
          ELSE /\ UNCHANGED worker
               /\ last' = "rejected"
       /\ bookings' = IF res = "AmountMismatch"
                      THEN [bookings EXCEPT ![FindBooking(ref, u)].status = "cancelled"]
                      ELSE bookings
    /\ UNCHANGED <<clock, session, searchLogs, flightTemps, passengers, payments>>

\* lines 1232-1266
confirm_payment_begin(w, u, ref, status_in, amount) ==
    /\ UNCHANGED <<tokenVars, apiVars, viewVars>>
    /\ Dispatch(w)
    /\ LET res == confirm_payment_check(u, ref, status_in, amount) IN
       IF res = "proceed"
       THEN /\ worker' = [worker EXCEPT ![w] =
                    [Idle EXCEPT !.pc = "cp_write", !.bid = FindBooking(ref, u), !.amt = amount]]
            /\ last' = NoResponse
       ELSE /\ UNCHANGED worker
            /\ last' = res
    /\ UNCHANGED <<clock, session, searchLogs, flightTemps, bookings, passengers, payments>>

\* a write outside a transaction that stops after the Payment row
confirm_payment_write_PaymentOnly(w) ==
    /\ UNCHANGED <<tokenVars, apiVars, viewVars>>
    /\ worker[w].pc = "cp_write"
    /\ payments' = [payments EXCEPT ![FindPayment(worker[w].bid)].status = "paid"]
    /\ last' = "confirmed"
    /\ worker' = [worker EXCEPT ![w] = Idle]
    /\ UNCHANGED <<clock, session, searchLogs, flightTemps, bookings, passengers>>

\* lines 1267-1274: with transaction.atomic(): both rows or neither
confirm_payment_write(w) ==
    /\ UNCHANGED <<tokenVars, apiVars, viewVars>>
    /\ worker[w].pc = "cp_write"
    /\ LET b == worker[w].bid
           p == FindPayment(b)
       IN  /\ payments' = [payments EXCEPT ![p].status = "paid"]
           /\ bookings' = [bookings EXCEPT ![b].status = "confirmed"]
           /\ last' = "confirmed"
    /\ worker' = [worker EXCEPT ![w] = Idle]
    /\ UNCHANGED <<clock, session, searchLogs, flightTemps, passengers>>

-----------------------------------------------------------------------------
(* my_bookings and receipt_api *)

\* a listing that forgets the owner
ConfirmedOf_AnyUser(u) ==
    {i \in 1..Len(bookings) : bookings[i].status = "confirmed"}

\* line 1120: Booking.objects.filter(user=request.user, status="confirmed")
ConfirmedOf(u) ==
    {i \in 1..Len(bookings) : bookings[i].user = u /\ bookings[i].status = "confirmed"}

\* line 1123: order_by("-created_at"); rows are created in the order of their ids
RECURSIVE Descending(_)
Descending(S) ==
    IF S = {} THEN <<>>
    ELSE LET m == CHOOSE i \in S : \A j \in S : j <= i
         IN  <<m>> \o Descending(S \ {m})

\* lines 1138-1151: the entry of a Booking in the list
Summary(b) ==
    [ref |-> bookings[b].booking_reference,
     status |-> bookings[b].status,
     flight |-> flightTemps[bookings[b].flight].offer,
     price |-> payments[FindPayment(b)].amount,
     currency |-> payments[FindPayment(b)].currency]

\* lines 1152-1176: the confirmation banner of ?ref=...&confirmed=1
Confirmation(u, ref, flag) ==
    LET S == {i \in ConfirmedOf(u) : bookings[i].booking_reference = ref}
        b == IF S = {} THEN 0 ELSE CHOOSE i \in S : \A j \in S : i <= j
    IN  IF ref # NoRef /\ flag /\ b # 0 /\ FindPayment(b) # 0
           /\ payments[FindPayment(b)].status = "paid"
        THEN bookings[b].booking_reference
        ELSE NoRef

\* lines 1116-1177.  b.payment of line 1128 raises for a Booking without
\* Payment: the getattr around it guards the attribute of the Payment only.
my_bookings(u, ref, flag) ==
    /\ UNCHANGED <<tokenVars, apiVars, FX_CACHE>>
    /\ returned' =
          IF \E b \in ConfirmedOf(u) : FindPayment(b) = 0
          THEN [kind |-> "unhandled_error"]
          ELSE LET qs == Descending(ConfirmedOf(u))
               IN  [kind |-> "bookings",
                    items |-> [k \in 1..Len(qs) |-> Summary(qs[k])],
                    confirmation |-> Confirmation(u, ref, flag)]
    /\ last' = NoResponse
    /\ UNCHANGED <<clock, appVars>>

\* lines 1179-1229: 400 without a reference, 404 for a reference that no
\* Booking of the user has, else the Booking with its flight, passengers and
\* payment
receipt_api(u, ref) ==
    /\ UNCHANGED <<tokenVars, apiVars, FX_CACHE>>
    /\ returned' =
          IF ref = NoRef THEN [kind |-> "bad_request"]
          ELSE LET b == FindBooking(ref, u)
                   p == FindPayment(b)
               IN  IF b = 0 THEN [kind |-> "not_found"]
                   ELSE [kind |-> "receipt",
                         booking_reference |-> bookings[b].booking_reference,
                         status |-> bookings[b].status,
                         flight |-> flightTemps[bookings[b].flight].offer,
                         passengers |-> Cardinality({i \in 1..Len(passengers) :
                                                        passengers[i].booking = b}),
                         payment |-> IF p = 0 THEN "" ELSE payments[p].status]
    /\ last' = NoResponse
    /\ UNCHANGED <<clock, appVars>>

-----------------------------------------------------------------------------

(* The operations *)

Search == \E u \in Users, rs \in ResultSets, logok \in BOOLEAN : flight_results(u, rs, logok)

Select == \E u \in Users, idx \in IdxInputs : booking_page(u, idx)

ConfirmBooking ==
    \/ \E w \in Workers, u \in Users, idx \in IdxInputs, po \in PricedOutcomes :
            confirm_booking_begin(w, u, idx, po)
    \/ \E w \in Workers, paxok \in BOOLEAN : confirm_booking_passenger(w, paxok)
    \/ \E w \in Workers : confirm_booking_payment(w)

ConfirmPayment ==
    \/ \E w \in Workers, u \in Users, ref \in RefInputs, st \in StatusInputs,
          a \in AmountInputs : confirm_payment_begin(w, u, ref, st, a)
    \* a request whose amount is no decimal, a request without a reference
    \/ \E w \in Workers, u \in Users, ref \in RefInputs :
            confirm_payment_begin(w, u, ref, "paid", BadAmount)
    \/ \E w \in Workers, u \in Users, a \in AmountInputs :
            confirm_payment_begin(w, u, NoRef, "paid", a)
    \/ \E w \in Workers : confirm_payment_write(w)

\* Search, selection and booking confirmation, from the empty system
Next == Tick \/ Search \/ Select \/ ConfirmBooking

Spec == Init /\ [][Next]_vars

\* Search and selection alone, with result sets of up to two offers and every
\* kind of index, each selection answered
SelectResultSets == { <<>>, <<"o1">>, <<"o1", "o2">> }

SelectIdxInputs ==
    {[kind |-> "none", n |-> 0], [kind |-> "bad", n |-> 0]}
        \cup {[kind |-> "int", n |-> i] : i \in -1..2}

SearchAny ==
    \E u \in Users, rs \in SelectResultSets, logok \in BOOLEAN : flight_results(u, rs, logok)

SelectAny == \E u \in Users, idx \in SelectIdxInputs : booking_page_answer(u, idx)

NextSelect == SearchAny \/ SelectAny

SpecSelect == Init /\ [][NextSelect]_vars

\* One session from the first search to the bookings: alice searches, opens
\* booking pages and posts the passenger form with the index the form
\* carries, in any order
SessionIdxInputs == {[kind |-> "none", n |-> 0]} \cup {[kind |-> "int", n |-> i] : i \in 0..1}

SearchSession ==
    \E rs \in SelectResultSets, logok \in BOOLEAN : flight_results("alice", rs, logok)

SelectSession == \E idx \in SessionIdxInputs : booking_page_answer("alice", idx)

ConfirmSession ==
    \/ \E w \in Workers, idx \in SessionIdxInputs, po \in {"none", "ok"} :
            confirm_booking_begin(w, "alice", idx, po)
    \/ \E w \in Workers, paxok \in BOOLEAN : confirm_booking_passenger(w, paxok)
    \/ \E w \in Workers : confirm_booking_payment(w)

NextSession == Tick \/ SearchSession \/ SelectSession \/ ConfirmSession

SpecSession == Init /\ [][NextSession]_vars

\* The token cache alone, under every configuration
InitToken ==
    /\ clock = 1
    /\ session = [u \in Users |-> [results |-> NoResults, search_log_id |-> 0, flight_temp_id |-> 0]]
    /\ searchLogs = 0
    /\ flightTemps = <<>>
    /\ bookings = <<>>
    /\ passengers = <<>>
    /\ payments = <<>>
    /\ worker = [w \in Workers |-> Idle]
    /\ last = NoResponse
    /\ settings \in TokenSettings
    /\ TokenUnused
    /\ ApiUnused
    /\ ViewUnused

GetToken ==
    \/ \E c \in Callers, force_refresh \in BOOLEAN : get_access_token_begin(c, force_refresh)
    \/ \E c \in Callers, outcome \in ExchangeOutcomes : get_access_token_exchange(c, outcome)
    \/ \E c \in Callers : get_access_token_store(c)

NextToken == Tick \/ GetToken

SpecToken == InitToken /\ [][NextToken]_vars

\* One provider call, under every configuration, by a user whose session
\* holds no token or a token that is about to be too old
OldSessionToken == [amadeus_token |-> "old", amadeus_token_ts |-> 1 - TokenMaxAge]

InitApi ==
    /\ clock = 1
    /\ session = [u \in Users |-> [results |-> NoResults, search_log_id |-> 0, flight_temp_id |-> 0]]
    /\ searchLogs = 0
    /\ flightTemps = <<>>
    /\ bookings = <<>>
    /\ passengers = <<>>
    /\ payments = <<>>
    /\ worker = [w \in Workers |-> Idle]
    /\ last = NoResponse
    /\ settings \in TokenSettings
    /\ TokenUnused
    /\ sessionToken \in [Users -> {NoSessionToken, OldSessionToken}]
    /\ api = NoCall
    /\ ViewUnused

\* what the exchanges of a call meet: a token that is expired at once, one
\* that lasts, or a failure (every failure leaves get_access_token the same way)
ApiExchangeOutcomes ==
    {[kind |-> "ok", expires_in |-> 0], [kind |-> "ok", expires_in |-> 62], NoExchange}

\* the steps of a call in progress
ApiStep ==
    \/ \E o \in ApiExchangeOutcomes : api_token(o)
    \/ \E outcome \in SendOutcomes : api_send(outcome)

ApiCall == \E u \in Users, mw \in {NoToken, "mw"} : api_begin(u, mw)

NextApi == Tick \/ ApiCall \/ ApiStep

SpecApi == InitApi /\ [][NextApi]_vars

\* One request through the middleware to a view that calls the provider
Request == \E u \in Users, override \in RequestTokens : middleware_begin(u, override)

RequestStep ==
    \/ \E o \in ApiExchangeOutcomes : middleware_token(o)
    \/ view_begin

NextRequest == Tick \/ Request \/ RequestStep \/ ApiStep

SpecRequest == InitApi /\ [][NextRequest]_vars

\* every step of a call ends: urlopen is given a timeout
FairSpecApi == SpecApi /\ WF_vars(ApiStep)

\* Conversions of every amount in every currency, the rate service
\* answering or not
FxAmounts == {Dec(5), Dec(15), Dec(100), Dec(10000), NotANumber, NoneAmount}

LiveOutcomes == {LiveFails, LiveRate(0), LiveRate(15900)}

Convert ==
    \E amount \in FxAmounts, currency \in Currencies, live \in LiveOutcomes :
        convert_to_idr(amount, currency, live)

NextFx == Tick \/ Convert

\* The conversions when the cache holds rates fetched before: the entries
\* are one second short of six hours old when the clock is 1
AgedRate == [rate |-> 15000, ts |-> 2 - FxMaxAge]

InitFxCache ==
    /\ clock = 1
    /\ session = [u \in Users |-> [results |-> NoResults, search_log_id |-> 0, flight_temp_id |-> 0]]
    /\ searchLogs = 0
    /\ flightTemps = <<>>
    /\ bookings = <<>>
    /\ passengers = <<>>
    /\ payments = <<>>
    /\ worker = [w \in Workers |-> Idle]
    /\ last = NoResponse
    /\ settings = DefaultSettings
    /\ TokenUnused
    /\ ApiUnused
    /\ FX_CACHE \in [Currencies -> {NoRate, AgedRate}]
    /\ \A c \in {"", "IDR", "JPY"} : FX_CACHE[c] = NoRate
    /\ returned = NoReturn

FxCacheAmounts == {Dec(100), NotANumber}

ConvertCached ==
    \E amount \in FxCacheAmounts, currency \in Currencies, live \in LiveOutcomes :
        convert_to_idr(amount, currency, live)

NextFxCache == Tick \/ ConvertCached

SpecFxCache == InitFxCache /\ [][NextFxCache]_vars

SpecFx == Init /\ [][NextFx]_vars

\* Searches with every outcome of the provider calls
RawResultSets ==
    { <<>>, <<"o1">>, <<"o1", "sold_out">>, <<"mismatch", "o2">>, <<"sold_out">>,
      <<"bad_price", "sold_out">> }

StatusCodes == {"400", "500"}

CallOutcomes ==
    {Json(d) : d \in RawResultSets}
        \cup {HTTPError(c, b) : c \in StatusCodes, b \in ErrorBodies}
        \cup {Raised("URLError"), Raised("Exception")}

\* the outcomes of the v1 call: its error is only told apart from its result
FallbackOutcomes ==
    {Json(d) : d \in RawResultSets}
        \cup {JsonOther, Raised("URLError"), Raised("Exception"),
              HTTPError("500", [errors |-> "system_title", spaced |-> TRUE])}

\* the v1 call is made after a v2 error the handler takes for a system error
FallbackFor(primary) ==
    IF primary.kind = "HTTPError" /\ fallback_needed(primary)
    THEN FallbackOutcomes ELSE {NotCalled}

SearchRequest ==
    \E u \in Users, primary \in CallOutcomes \cup {JsonOther} :
        \E fallback \in FallbackFor(primary), logok \in BOOLEAN :
            flight_results_request(u, primary, fallback, logok)

PriceOffer == \E outcome \in CallOutcomes \cup {JsonOther} : price_offer(outcome)

Availability ==
    \E primary \in CallOutcomes \cup {JsonOther} :
        \E fallback \in FallbackFor(primary) : availability_api(primary, fallback)

NextSearch == SearchRequest

SpecSearch == Init /\ [][NextSearch]_vars

\* The booking confirmations of alice for the offer she selected, with every
\* outcome of the pricing call
PricingOutcomes == SendOutcomes \cup {"not_sent"}

ConfirmCall ==
    \/ \E w \in Workers, first \in PricingOutcomes, refreshed \in BOOLEAN,
          retry \in PricingOutcomes :
            confirm_booking_call(w, "alice", [kind |-> "int", n |-> 0], first, refreshed, retry)
    \/ \E w \in Workers, paxok \in BOOLEAN : confirm_booking_passenger(w, paxok)
    \/ \E w \in Workers : confirm_booking_payment(w)

NextPricing == Tick \/ ConfirmCall

\* The session of a user who has searched (FlightSearchLog sl) and opened the
\* booking page of the first offer (FlightTemp ft), and of one who has not
Selected(sl, ft) == [results |-> <<"o1">>, search_log_id |-> sl, flight_temp_id |-> ft]
Fresh == [results |-> NoResults, search_log_id |-> 0, flight_temp_id |-> 0]

\* Booking confirmation alone, after alice and bob have each searched and
\* selected
InitBook ==
    /\ clock = 1
    /\ session = [u \in Users |-> IF u = "alice" THEN Selected(1, 1) ELSE Selected(2, 2)]
    /\ searchLogs = 2
    /\ flightTemps = <<[search |-> 1, offer |-> "o1"], [search |-> 2, offer |-> "o1"]>>
    /\ bookings = <<>>
    /\ passengers = <<>>
    /\ payments = <<>>
    /\ worker = [w \in Workers |-> Idle]
    /\ last = NoResponse
    /\ settings = DefaultSettings
    /\ TokenUnused
    /\ ApiUnused
    /\ ViewUnused

NextBook == Tick \/ ConfirmBooking

SpecBook == InitBook /\ [][NextBook]_vars

\* Booking confirmation and payment confirmation, after alice has searched
\* and selected; bob has a fresh session
InitPay ==
    /\ clock = 1
    /\ session = [u \in Users |-> IF u = "alice" THEN Selected(1, 1) ELSE Fresh]
    /\ searchLogs = 1
    /\ flightTemps = <<[search |-> 1, offer |-> "o1"]>>
    /\ bookings = <<>>
    /\ passengers = <<>>
    /\ payments = <<>>
    /\ worker = [w \in Workers |-> Idle]
    /\ last = NoResponse
    /\ settings = DefaultSettings
    /\ TokenUnused
    /\ ApiUnused
    /\ ViewUnused

\* the booking confirmations of a user who posts the index of the offer
\* selected: the pricing call fails or returns the quoted price
ConfirmSelected ==
    \/ \E w \in Workers, u \in Users, po \in {"none", "ok"} :
            confirm_booking_begin(w, u, [kind |-> "int", n |-> 0], po)
    \/ \E w \in Workers, paxok \in BOOLEAN : confirm_booking_passenger(w, paxok)
    \/ \E w \in Workers : confirm_booking_payment(w)

\* the payment confirmations of alice, who owns every booking here: status
\* "paid" with each amount, another status, an amount that is no decimal, no
\* reference; bob asks for references that are not his
ConfirmPaid ==
    \/ \E w \in Workers, ref \in RefInputs, a \in AmountInputs :
            confirm_payment_begin(w, "alice", ref, "paid", a)
    \/ \E w \in Workers, ref \in RefInputs :
            \/ confirm_payment_begin(w, "alice", ref, "failed", NoAmount)
            \/ confirm_payment_begin(w, "alice", ref, "paid", BadAmount)
            \/ confirm_payment_begin(w, "bob", ref, "paid", NoAmount)
    \/ \E w \in Workers : confirm_payment_begin(w, "alice", NoRef, "paid", NoAmount)
    \/ \E w \in Workers : confirm_payment_write(w)

NextPay == Tick \/ ConfirmSelected \/ ConfirmPaid

SpecPay == InitPay /\ [][NextPay]_vars

SpecPricing == InitPay /\ [][NextPricing]_vars

\* Two users who have each searched, selected and booked (alice in the first
\* second, bob in the next) pay, list their bookings and fetch receipts, each
\* with the references of both
InitUsers ==
    /\ clock = 2
    /\ session = [u \in Users |-> IF u = "alice" THEN Selected(1, 1) ELSE Selected(2, 2)]
    /\ searchLogs = 2
    /\ flightTemps = <<[search |-> 1, offer |-> "o1"], [search |-> 2, offer |-> "o1"]>>
    /\ bookings = <<[user |-> "alice", flight |-> 1, booking_reference |-> 1,
                     status |-> "pending"],
                    [user |-> "bob", flight |-> 2, booking_reference |-> 2,
                     status |-> "pending"]>>
    /\ passengers = <<[booking |-> 1], [booking |-> 2]>>
    /\ payments = <<[booking |-> 1, amount |-> 100, currency |-> "USD", status |-> "pending"],
                    [booking |-> 2, amount |-> 100, currency |-> "USD", status |-> "pending"]>>
    /\ worker = [w \in Workers |-> Idle]
    /\ last = NoResponse
    /\ settings = DefaultSettings
    /\ TokenUnused
    /\ ApiUnused
    /\ ViewUnused

ConfirmPaidAny ==
    \/ \E w \in Workers, u \in Users, ref \in RefInputs :
            confirm_payment_begin(w, u, ref, "paid", NoAmount)
    \/ \E w \in Workers : confirm_payment_write(w)

MyBookings == \E u \in Users, ref \in {NoRef} \cup RefInputs : my_bookings(u, ref, ref # NoRef)

Receipt == \E u \in Users, ref \in {NoRef} \cup RefInputs : receipt_api(u, ref)

NextUsers == ConfirmPaidAny \/ MyBookings \/ Receipt

SpecUsers == InitUsers /\ [][NextUsers]_vars

\* The price requests and the availability summaries, with every outcome of
\* the provider calls
NextProvider == Tick \/ PriceOffer \/ Availability

SpecProvider == Init /\ [][NextProvider]_vars

\* As SpecPay, with a booking of alice whose payment has been marked failed.
\* No handler of views.py writes "failed": the status is set through the admin
\* site (admin.py registers Payment).
InitFailed ==
    /\ clock = 1
    /\ session = [u \in Users |-> IF u = "alice" THEN Selected(1, 1) ELSE Fresh]
    /\ searchLogs = 1
    /\ flightTemps = <<[search |-> 1, offer |-> "o1"]>>
    /\ bookings = <<[user |-> "alice", flight |-> 1, booking_reference |-> 1,
                     status |-> "pending"]>>
    /\ passengers = <<[booking |-> 1]>>
    /\ payments = <<[booking |-> 1, amount |-> 100, currency |-> "USD", status |-> "failed"]>>
    /\ worker = [w \in Workers |-> Idle]
    /\ last = NoResponse
    /\ settings = DefaultSettings
    /\ TokenUnused
    /\ ApiUnused
    /\ ViewUnused

NextFailed == Tick \/ ConfirmSelected \/ ConfirmPayment

SpecFailed == InitFailed /\ [][NextFailed]_vars

-----------------------------------------------------------------------------
(* Properties of payment confirmation *)

PaymentsOf(b) == {p \in 1..Len(payments) : payments[p].booking = b}
PassengersOf(b) == {p \in 1..Len(passengers) : passengers[p].booking = b}

\* the request the owner of payment p's booking makes for it
OwnerConfirms(w, p, status_in, amount) ==
    confirm_payment_begin(w, bookings[payments[p].booking].user,
                          bookings[payments[p].booking].booking_reference, status_in, amount)

AllAmountInputs == AmountInputs \cup {BadAmount}

\* C1: in every reachable state a Booking is confirmed if and only if it has
\* a Payment that is paid, whatever the interleaving of booking and payment
\* confirmations.
C1_ConfirmedIffPaid ==
    \A b \in 1..Len(bookings) :
        (bookings[b].status = "confirmed")
            <=> (\E p \in PaymentsOf(b) : payments[p].status = "paid")

\* a booking has been confirmed and paid while another is still pending with
\* its pending payment
C1_Witness ==
    \E b1, b2 \in 1..Len(bookings) :
        /\ bookings[b1].status = "confirmed"
        /\ \E p \in PaymentsOf(b1) : payments[p].status = "paid"
        /\ bookings[b2].status = "pending"
        /\ \E p \in PaymentsOf(b2) : payments[p].status = "pending"

\* C2: every step that turns a pending Payment into a paid one is the write
\* of a confirm_payment request that supplied an amount, and that amount is
\* the recorded Payment.amount; a request with another amount or with no
\* amount never marks the Payment paid.
C2_PaidOnlyWithMatchingAmount ==
    [][\A p \in 1..Len(payments) :
          (payments[p].status = "pending" /\ payments'[p].status = "paid")
            => \E w \in Workers :
                  /\ worker[w].pc = "cp_write"
                  /\ worker'[w].pc = "idle"
                  /\ worker[w].bid = payments[p].booking
                  /\ worker[w].amt.kind = "dec"
                  /\ worker[w].amt.v = payments[p].amount]_vars

\* C3: a confirm_payment request of the owner that reports "paid" for a
\* pending Payment with an amount other than the recorded one is answered
\* AmountMismatch, and a step that answers AmountMismatch writes nothing:
\* Payment and Booking are pending after it.
C3_AmountMismatchRejected ==
    /\ [](\A p \in 1..Len(payments), a \in AmountInputs :
            LET b == payments[p].booking IN
            ( /\ payments[p].status = "pending"
              /\ p = FindPayment(b)
              /\ a.kind = "dec"
              /\ a.v # payments[p].amount )
              => confirm_payment_check(bookings[b].user, bookings[b].booking_reference,
                                       "paid", a) = "AmountMismatch")
    /\ [][last' = "AmountMismatch"
            => UNCHANGED <<bookings, passengers, payments, worker>>]_vars

\* the last request was answered AmountMismatch and a pending booking with a
\* pending payment is in the database
C3_Witness ==
    /\ last = "AmountMismatch"
    /\ \E b \in 1..Len(bookings) :
          /\ bookings[b].status = "pending"
          /\ \E p \in PaymentsOf(b) : payments[p].status = "pending"

\* C4: a failed Payment stays failed and its Booking unconfirmed in every
\* step, and every confirm_payment request of the owner for it, whatever
\* status and amount it reports, is rejected and writes nothing: AlreadyFailed,
\* or InvalidAmount when the amount posted is not a decimal number.
C4_FailedNeverPaid ==
    [][\A p \in 1..Len(payments) :
          payments[p].status = "failed"
            => /\ payments'[p].status = "failed"
               /\ bookings[payments[p].booking].status # "confirmed"
               /\ bookings'[payments[p].booking].status # "confirmed"
               /\ \A w \in Workers, st \in StatusInputs, a \in AllAmountInputs :
                      OwnerConfirms(w, p, st, a)
                        => /\ last' = IF a.kind = "bad" THEN "InvalidAmount"
                                      ELSE "AlreadyFailed"
                           /\ UNCHANGED <<bookings, passengers, payments, worker>> ]_vars

\* a request for the failed payment has just been answered AlreadyFailed
C4_Witness ==
    /\ last = "AlreadyFailed"
    /\ \E p \in 1..Len(payments) :
          payments[p].status = "failed" /\ bookings[payments[p].booking].status = "pending"

\* C5: a valid confirmation of the owner (status "paid", the recorded amount)
\* passes the checks when the payment is pending, the write leaves Payment
\* paid and Booking confirmed and answers success, and the same request made
\* again is answered success (already_confirmed) without writing anything, so
\* the state after the second call is the state after the first.
C5_Idempotent ==
    /\ [](\A p \in 1..Len(payments) :
            LET b == payments[p].booking
                res == confirm_payment_check(bookings[b].user, bookings[b].booking_reference,
                                             "paid", [kind |-> "dec", v |-> payments[p].amount])
            IN  /\ (payments[p].status = "pending" /\ p = FindPayment(b)) => res = "proceed"
                /\ (payments[p].status = "paid" /\ p = FindPayment(b)) => res = "already_confirmed")
    /\ [][ /\ last' = "already_confirmed"
                => UNCHANGED <<bookings, passengers, payments, worker>>
           /\ \A w \in Workers :
                 /\ (worker[w].pc = "idle" /\ worker'[w].pc = "cp_write")
                       => /\ last' = NoResponse
                          /\ confirm_payment_check(bookings[worker'[w].bid].user,
                                 bookings[worker'[w].bid].booking_reference,
                                 "paid", worker'[w].amt) = "proceed"
                 /\ (worker[w].pc = "cp_write" /\ confirm_payment_write(w))
                       => /\ last' = "confirmed"
                          /\ bookings'[worker[w].bid].status = "confirmed"
                          /\ \A p \in PaymentsOf(worker[w].bid) : payments'[p].status = "paid" ]_vars

\* the second of two valid confirmations has just been answered
C5_Witness ==
    /\ last = "already_confirmed"
    /\ \E b \in 1..Len(bookings) :
          /\ bookings[b].status = "confirmed"
          /\ \E p \in PaymentsOf(b) : payments[p].status = "paid"

\* C32: a confirm_payment request with a reference and an amount that is a
\* decimal number or absent is answered by the first check that applies, in
\* the order NotFound, NoPayment, AlreadyFailed, already confirmed (success),
\* StatusMismatch, AmountMismatch: a paid Payment of a confirmed Booking gives
\* success whatever status and amount are reported, a failed Payment gives
\* AlreadyFailed whatever is reported, and for a pending Payment a status
\* other than "paid" is reported before a wrong amount.
C32_CheckOrder ==
    /\ \A u \in Users, ref \in RefInputs, st \in StatusInputs, a \in AmountInputs :
          (\A b \in 1..Len(bookings) :
                bookings[b].booking_reference # ref \/ bookings[b].user # u)
            => confirm_payment_check(u, ref, st, a) = "NotFound"
    /\ \A b \in 1..Len(bookings), st \in StatusInputs, a \in AmountInputs :
          LET u == bookings[b].user
              ref == bookings[b].booking_reference
              res == confirm_payment_check(u, ref, st, a)
              P == PaymentsOf(b)
          IN  b = FindBooking(ref, u) =>
                CASE P = {} -> res = "NoPayment"
                  [] \E p \in P : payments[p].status = "failed" -> res = "AlreadyFailed"
                  [] \E p \in P : payments[p].status = "paid" ->
                        IF bookings[b].status = "confirmed"
                        THEN res = "already_confirmed"
                        ELSE res \in {"StatusMismatch", "AmountMismatch", "proceed"}
                  [] OTHER ->
                        res = IF st # "paid" THEN "StatusMismatch"
                              ELSE IF \E p \in P : a.kind = "dec" /\ a.v # payments[p].amount
                              THEN "AmountMismatch"
                              ELSE "proceed"

\* a request for the paid Payment of a confirmed Booking has just been
\* answered with success while another Payment of the same user is failed
C32_Witness ==
    /\ last = "already_confirmed"
    /\ \E p1, p2 \in 1..Len(payments) :
          /\ payments[p1].status = "paid"
          /\ bookings[payments[p1].booking].status = "confirmed"
          /\ payments[p2].status = "failed"
          /\ bookings[payments[p2].booking].user = bookings[payments[p1].booking].user

\* the answers of a request that is rejected (lines 1243-1266)
Rejections ==
    {"InvalidAmount", "MissingRef", "NotFound", "NoPayment", "AlreadyFailed",
     "StatusMismatch", "AmountMismatch"}

\* C33: a confirm_payment request that is rejected (NotFound, NoPayment,
\* AlreadyFailed, StatusMismatch, AmountMismatch, invalid amount, missing
\* reference) leaves every Booking and every Payment as it was.
C33_RejectionWritesNothing ==
    [][last' \in Rejections => UNCHANGED <<bookings, passengers, payments, worker>>]_vars

\* a request that reported another status than "paid" for a pending Payment
\* has just been rejected, and Booking and Payment are pending
C33_Witness ==
    /\ last = "StatusMismatch"
    /\ \E p \in 1..Len(payments) :
          /\ payments[p].status = "pending"
          /\ bookings[payments[p].booking].status = "pending"

\* C34: a paid Payment stays paid and its confirmed Booking confirmed in
\* every step of confirm_booking and confirm_payment; no step gives a Booking
\* the status "cancelled" or a Payment the status "failed".
C34_PaidIsTerminal ==
    [][ /\ Len(payments') >= Len(payments)
        /\ Len(bookings') >= Len(bookings)
        /\ \A p \in 1..Len(payments') :
              IF p <= Len(payments)
              THEN /\ payments[p].status = "paid" => payments'[p].status = "paid"
                   /\ payments'[p].status = "failed" => payments[p].status = "failed"
              ELSE payments'[p].status = "pending"
        /\ \A b \in 1..Len(bookings') :
              IF b <= Len(bookings)
              THEN /\ bookings[b].status = "confirmed" => bookings'[b].status = "confirmed"
                   /\ bookings'[b].status # "cancelled"
              ELSE bookings'[b].status = "pending" ]_vars

\* after the payment of a booking was confirmed, further requests were made:
\* a second booking exists, and the last confirmation reported a wrong amount
C34_Witness ==
    /\ last = "AmountMismatch"
    /\ \E b1, b2 \in 1..Len(bookings) :
          /\ b1 < b2
          /\ bookings[b1].status = "confirmed"
          /\ \E p \in PaymentsOf(b1) : payments[p].status = "paid"

\* no Booking has the reference ref and the owner u
NoBookingOf(u, ref) ==
    \A b \in 1..Len(bookings) :
        bookings[b].booking_reference # ref \/ bookings[b].user # u

\* C11: a confirm_payment request for a reference that no Booking has, or
\* that only a Booking of another user has, is rejected with NotFound whatever
\* status and amount it reports (with InvalidAmount when the amount posted is
\* not a decimal number, which is checked first) and writes nothing.
C11_NotFoundRejected ==
    [][\A u \in Users, ref \in RefInputs :
          NoBookingOf(u, ref)
            => \A w \in Workers, st \in StatusInputs, a \in AllAmountInputs :
                  confirm_payment_begin(w, u, ref, st, a)
                    => /\ last' = IF a.kind = "bad" THEN "InvalidAmount" ELSE "NotFound"
                       /\ UNCHANGED <<bookings, passengers, payments, worker>>]_vars

\* a request has just been answered NotFound although a Booking with a
\* Payment exists for each reference: it came from a user who owns none
C11_Witness ==
    /\ last = "NotFound"
    /\ \A ref \in RefInputs :
          \E b \in 1..Len(bookings) :
              bookings[b].booking_reference = ref /\ PaymentsOf(b) # {}

-----------------------------------------------------------------------------
(* Properties of booking confirmation *)

\* some request is still between its Booking insert and its response
InCreation(b) ==
    \E w \in Workers : worker[w].bid = b /\ worker[w].pc \in {"cb_passenger", "cb_payment"}

\* C6: every persisted Booking has exactly one Payment and at least one
\* Passenger.  Stated here for the bookings whose request has been answered;
\* the claim asks it of every state, so also of the bookings still in creation.
C6_BookingHasPassengerAndPayment ==
    \A b \in 1..Len(bookings) :
        ~InCreation(b) => Cardinality(PaymentsOf(b)) = 1 /\ PassengersOf(b) # {}

\* C7 as claimed: a confirm_booking request inserts a Booking only if its
\* pricing call returned a response.
C7_BookingOnlyAfterPricing ==
    [][Len(bookings') > Len(bookings)
          => \A w \in Workers, u \in Users, idx \in IdxInputs, po \in PricedOutcomes :
                confirm_booking_begin(w, u, idx, po) => po # "none"]_vars

\* C7 amended: a confirm_booking request inserts a Booking only if it resolved
\* an offer, the session points to a SelectionRecord and a price was read for
\* the offer, and the Payment it then creates records that price: the total of
\* the pricing response when the call returned a priced offer, else the total
\* the offer carries from the search.
C7_BookingOnlyWithOfferAndPrice ==
    [][ /\ Len(bookings') > Len(bookings)
              => \A w \in Workers, u \in Users, idx \in IdxInputs, po \in PricedOutcomes :
                    confirm_booking_begin(w, u, idx, po)
                      => /\ ResolveOffer(u, idx) # NoOffer
                         /\ session[u].flight_temp_id # 0
                         /\ po \notin {"ok_malformed", "ok_noprice"}
        /\ \A w \in Workers :
              (Len(payments') > Len(payments) /\ confirm_booking_payment(w))
                => /\ worker[w].offer # NoOffer
                   /\ payments'[Len(payments')].amount =
                        IF worker[w].priced \in {"ok", "ok_huge"}
                        THEN QuotedTotal(worker[w].offer, worker[w].priced)
                        ELSE OfferTotal(worker[w].offer) ]_vars

\* a Payment records the total of the search offer: its Booking was created
\* by a request whose pricing call returned no priced offer
C7_Witness ==
    \E p \in 1..Len(payments) :
        /\ payments[p].amount = OfferTotal("o1")
        /\ bookings[payments[p].booking].status = "pending"

\* a required input of the request of u is missing
MissingInput(u, idx, po) ==
    \/ session[u].results = NoResults
    \/ ResolveOffer(u, idx) = NoOffer
    \/ session[u].flight_temp_id = 0
    \/ PriceTotal(ResolveOffer(u, idx), po) = NoPrice

\* C8: a confirm_booking request with a required input missing is answered
\* normally, without a booking reference, and creates no Booking, Passenger or
\* Payment.
C8_MissingInputIsNoOp ==
    [][\A w \in Workers, u \in Users, idx \in IdxInputs, po \in PricedOutcomes :
          (confirm_booking_begin(w, u, idx, po) /\ MissingInput(u, idx, po))
            => /\ last' = "rendered"
               /\ UNCHANGED <<bookings, passengers, payments, worker>>]_vars

\* C9: no two Bookings share a booking_reference.
C9_UniqueReferences ==
    \A i, j \in 1..Len(bookings) :
        i # j => bookings[i].booking_reference # bookings[j].booking_reference

\* two users hold a booking each, and a request has just been answered without
\* a reference
C9_Witness ==
    /\ \E i, j \in 1..Len(bookings) : bookings[i].user # bookings[j].user
    /\ last = "rendered"

\* C10: every confirm_booking request with a SelectionRecord and a non-empty
\* price and currency gets its own pending Booking, also when another request
\* was handled in the same clock second.
C10_EveryRequestGetsBooking ==
    [][\A w \in Workers, u \in Users, idx \in IdxInputs, po \in PricedOutcomes :
          ( /\ confirm_booking_begin(w, u, idx, po)
            /\ session[u].flight_temp_id # 0
            /\ PriceTotal(ResolveOffer(u, idx), po) # NoPrice
            /\ PriceCurrency(ResolveOffer(u, idx), po) # "" )
            => /\ Len(bookings') = Len(bookings) + 1
               /\ bookings'[Len(bookings')].user = u
               /\ bookings'[Len(bookings')].status = "pending"]_vars

-----------------------------------------------------------------------------
(* Properties of the selection *)

IntIdx(i) == [kind |-> "int", n |-> i]

\* the last successful search of u stored an empty result set (a search
\* that logged itself has set the pointer to its FlightSearchLog)
EmptySearch(u) == session[u].results = <<>> /\ session[u].search_log_id # 0

\* C12: selecting index 0 when the last search result set is empty is
\* answered not_found (404) and creates no FlightTemp.
C12_EmptyResultsNotFound ==
    [][\A u \in Users :
          (EmptySearch(u) /\ booking_page_answer(u, IntIdx(0)))
            => /\ booking_page_status(u, IntIdx(0)) = 404
               /\ last' = "not_found"
               /\ UNCHANGED <<flightTemps, session>>]_vars

\* C13: in every session a selection without idx is answered missing_param
\* and one with a non-integer idx invalid_param, both with status 400, and
\* neither creates a FlightTemp nor changes the session.
C13_MissingOrInvalidIdx ==
    [][\A u \in Users, idx \in SelectIdxInputs :
          (idx.kind # "int" /\ booking_page_answer(u, idx))
            => /\ booking_page_status(u, idx) = 400
               /\ last' = IF idx.kind = "none" THEN "missing_param" ELSE "invalid_param"
               /\ UNCHANGED <<flightTemps, session>>]_vars

\* a selection without idx has just been answered in a system where every
\* session holds two offers and a selection
C13_Witness ==
    /\ last = "missing_param"
    /\ \A u \in Users : Len(session[u].results) = 2 /\ session[u].flight_temp_id # 0

\* C14: with n > 0 offers in the session and an integer idx, the selection
\* succeeds with status 200 and renders the offer at position idx when
\* 0 <= idx < n, with or without a FlightSearchLog pointer in the session, and
\* is answered not_found (404) without a FlightTemp otherwise.
C14_SelectionByIndex ==
    [][\A u \in Users, idx \in SelectIdxInputs :
          ( /\ idx.kind = "int"
            /\ session[u].results # <<>>
            /\ booking_page_answer(u, idx) )
            => IF 0 <= idx.n /\ idx.n < Len(session[u].results)
               THEN /\ booking_page_status(u, idx) = 200
                    /\ last' = session[u].results[idx.n + 1]
               ELSE /\ booking_page_status(u, idx) = 404
                    /\ last' = "not_found"
                    /\ UNCHANGED <<flightTemps, session>>]_vars

\* the second offer has just been rendered although no FlightSearchLog exists
C14_Witness ==
    /\ last = "o2"
    /\ searchLogs = 0
    /\ \E u \in Users : Len(session[u].results) = 2 /\ session[u].search_log_id = 0

\* C15: a selection with an integer idx in a session without search results
\* is answered no_active_search (400) and creates no FlightTemp.
C15_NoActiveSearch ==
    [][\A u \in Users, idx \in SelectIdxInputs :
          ( /\ idx.kind = "int"
            /\ session[u].results = NoResults
            /\ booking_page_answer(u, idx) )
            => /\ booking_page_status(u, idx) = 400
               /\ last' = "no_active_search"
               /\ UNCHANGED <<flightTemps, session>>]_vars

\* a selection has just been answered no_active_search and no session has
\* search results or a search log
C15_Witness ==
    /\ last = "no_active_search"
    /\ \A u \in Users : session[u].results = NoResults /\ session[u].search_log_id = 0

-----------------------------------------------------------------------------
(* Properties of the token cache *)

\* the cache holds a token that has not expired
CacheValid == TOKEN # NoToken /\ clock < EXPIRES_AT

\* C16: without a static token, a call that does not force a refresh and
\* finds an unexpired cached token returns exactly that token, starts no
\* exchange and leaves the cache as it is; so calls within the lifetime of a
\* cached token all return the same token.
C16_CachedTokenReturned ==
    [][\A c \in Callers :
          ( /\ settings.AMADEUS_ACCESS_TOKEN = NoToken
            /\ CacheValid
            /\ get_access_token_begin(c, FALSE) )
            => /\ last' = TOKEN
               /\ UNCHANGED <<TOKEN, EXPIRES_AT, exchanges, caller>>]_vars

\* the token of the one exchange made so far has just been returned, a second
\* after it was cached, and no call is in progress
C16_Witness ==
    /\ settings.AMADEUS_ACCESS_TOKEN = NoToken
    /\ exchanges = 1
    /\ CacheValid
    /\ clock = 2
    /\ last = TOKEN
    /\ \A c \in Callers : caller[c].pc = "idle"

\* C17 as claimed: a call that forces a refresh always goes on to a token
\* exchange, whatever the configuration and the cache.
C17_ForcedAlwaysExchanges ==
    [][\A c \in Callers :
          get_access_token_begin(c, TRUE) => caller'[c].pc = "exchange"]_vars

\* C17 amended: a call that forces a refresh goes on to a token exchange
\* whenever client id and secret are configured, whatever the cache and the
\* static token are, and returns None without an exchange when they are not;
\* it never returns a cached or a static token without an exchange.
C17_ForcedExchangesWithCredentials ==
    [][\A c \in Callers :
          get_access_token_begin(c, TRUE)
            => IF settings.credentials
               THEN caller'[c].pc = "exchange" /\ last' = NoResponse
               ELSE last' = "None" /\ UNCHANGED <<TOKEN, EXPIRES_AT, exchanges, caller>>]_vars

\* a call is in its exchange although a static token is configured and the
\* cache holds an unexpired token
C17_Witness ==
    /\ settings.AMADEUS_ACCESS_TOKEN # NoToken
    /\ CacheValid
    /\ \E c \in Callers : caller[c].pc = "exchange"

\* C18: with a static token configured, a call that does not force a refresh
\* returns the static token, starts no exchange and leaves the cache as it
\* is, whatever the cache holds.
C18_StaticTokenReturned ==
    [][\A c \in Callers :
          ( /\ settings.AMADEUS_ACCESS_TOKEN # NoToken
            /\ get_access_token_begin(c, FALSE) )
            => /\ last' = settings.AMADEUS_ACCESS_TOKEN
               /\ UNCHANGED <<TOKEN, EXPIRES_AT, exchanges, caller>>]_vars

\* the static token has just been returned while the cache holds another,
\* unexpired token
C18_Witness ==
    /\ last = StaticToken
    /\ CacheValid
    /\ TOKEN # StaticToken

\* C19: a call whose exchange fails, or that has no client id and secret,
\* returns None and leaves _TOKEN and _EXPIRES_AT as they were.
C19_FailureKeepsCache ==
    [][\A c \in Callers :
          /\ \A outcome \in ExchangeOutcomes :
                (outcome.kind \in ExchangeFailures /\ get_access_token_exchange(c, outcome))
                  => last' = "None" /\ UNCHANGED <<TOKEN, EXPIRES_AT>>
          /\ \A force_refresh \in BOOLEAN :
                ( /\ ~settings.credentials
                  /\ force_refresh \/ settings.AMADEUS_ACCESS_TOKEN = NoToken
                  /\ get_access_token_begin(c, force_refresh) )
                  => last' = "None" /\ UNCHANGED <<TOKEN, EXPIRES_AT>>]_vars

\* a second exchange has just failed while the token of the first is still
\* cached and unexpired
C19_Witness ==
    /\ last = "None"
    /\ exchanges = 2
    /\ TOKEN = ProviderTokens[1]
    /\ CacheValid

-----------------------------------------------------------------------------
(* Properties of the provider call                                         *)

\* C20: one call sends at most 3 requests and always ends, with the parsed
\* JSON or with an error.  A further request is sent only after a request
\* that ended with HTTP 401; any other HTTP status, a network failure or an
\* unusable body ends the call with that error at that request; a 401 at the
\* third request ends the call with an HTTP error of status 401.
C20_RetryOnlyOn401 ==
    /\ [][ /\ api'.sent <= Attempts
           /\ api'.sent > api.sent => api.pc = "send"
           /\ api.pc = "idle" => api'.sent \in {api.sent, 0}
           /\ \A outcome \in SendOutcomes :
                 api_send(outcome) =>
                   /\ api'.sent = api.sent + 1
                   /\ CASE outcome = "401" /\ api.sent + 1 < Attempts ->
                              api'.pc # "idle" /\ last' = NoResponse
                        [] outcome = "401" /\ api.sent + 1 >= Attempts ->
                              api'.pc = "idle" /\ last' = "HTTPError_401"
                        [] outcome = "json" -> api'.pc = "idle" /\ last' = "json"
                        [] outcome = "500" -> api'.pc = "idle" /\ last' = "HTTPError_500"
                        [] outcome = "url_error" -> api'.pc = "idle" /\ last' = "URLError"
                        [] OTHER -> api'.pc = "idle" /\ last' = "Exception" ]_vars
    /\ (api.pc # "idle") ~> (api.pc = "idle")

\* the third request of a call has just been answered with 401
C20_Witness ==
    /\ api.pc = "idle"
    /\ api.sent = Attempts
    /\ last = "HTTPError_401"

\* C30: every attempt after the first starts by removing the session's token
\* and timestamp and calls get_access_token(force_refresh=True) before its
\* request is sent; a token obtained is stored in the caller's session with
\* the current time before the request, and a call started while the session
\* token is not too old uses it.
C30_RetryRefreshesSession ==
    [][ /\ (api.pc = "send" /\ api'.pc = "retry_forced") =>
              /\ api'.i = api.i + 1
              /\ sessionToken'[api.user] = NoSessionToken
        /\ (api'.pc = "retry_forced" /\ api.pc # "retry_forced") => api.pc = "send"
        /\ (api.pc = "retry_forced" /\ api'.pc # "retry_forced") =>
              /\ settings.credentials => exchanges' = exchanges + 1
              /\ ~settings.credentials => api'.pc = "retry_fallback"
        /\ (api'.pc = "retry_fallback" /\ api.pc # "retry_fallback") => api.pc = "retry_forced"
        /\ (api'.pc = "send" /\ api.pc # "send" /\ api'.i >= 1) =>
              /\ api.pc \in {"retry_forced", "retry_fallback"}
              /\ IF api'.token # NoToken
                 THEN /\ sessionToken'[api.user] =
                            [amadeus_token |-> api'.token, amadeus_token_ts |-> clock]
                      /\ SessionTokenFresh(api.user)'
                 ELSE sessionToken'[api.user] = NoSessionToken
        /\ (api.pc = "idle" /\ api'.pc # "idle" /\ SessionTokenFresh(api'.user)) =>
              /\ api'.pc = "send"
              /\ api'.token = sessionToken[api'.user].amadeus_token ]_vars

\* a second attempt is about to be sent with the token just stored in the
\* session, which had held another token when the call began
C30_Witness ==
    /\ api.pc = "send"
    /\ api.i = 1
    /\ api.token \notin {NoToken, "old"}
    /\ sessionToken[api.user] = [amadeus_token |-> api.token, amadeus_token_ts |-> clock]
    /\ clock > api.now

\* C31: no request is sent to the provider without a bearer token: when no
\* token can be obtained, at the first attempt or at a retry, the call ends
\* without a request.
C31_NoRequestWithoutToken == api.pc = "send" => api.token # NoToken

-----------------------------------------------------------------------------
(* Properties of the search and of the error messages                      *)

\* C21: when the primary search fails with a provider error whose errors
\* array has a title containing "system error has occurred" in any case, or
\* code 141, or status 500, the fallback search is called, and a fallback
\* response with offers becomes the result of the search.
C21_FallbackOnSystemError ==
    [][\A u \in Users, primary \in CallOutcomes, fallback \in CallOutcomes \cup {NotCalled},
         logok \in BOOLEAN :
          ( /\ primary.kind = "HTTPError"
            /\ primary.msg.errors \in {"system_title", "code_141", "status_500"}
            /\ flight_results_request(u, primary, fallback, logok) )
            => /\ returned'.calls = 2
               /\ fallback.kind = "json" => returned'.results = fallback.data]_vars

\* the offer does not show in a result set
Hidden(o) == (bookableSeats(o).present /\ bookableSeats(o).n <= 0) \/ validatingMismatch(o)

\* C22: after a search the results shown and the results stored in the
\* session hold no offer whose seat count is present and <= 0 and no offer
\* whose validating carrier operates no segment.
C22_NoUnbookableOffers ==
    /\ \A u \in Users : \A i \in 1..Len(session[u].results) : ~Hidden(session[u].results[i])
    /\ returned.kind = "results"
          => \A i \in 1..Len(returned.results) : ~Hidden(returned.results[i])

\* C23: an error body whose errors array holds code 38192 is given the
\* message "session token expired, retry" and one that holds code 34651 the
\* message "seat unavailable", by the search and by the booking confirmation,
\* whatever other codes the array holds.
C23_FriendlyMessages ==
    /\ [][\A u \in Users, primary \in CallOutcomes :
            ( /\ primary.kind = "HTTPError"
              /\ flight_results_request(u, primary, NotCalled, TRUE) )
              => /\ "38192" \in Codes(primary.msg.errors)
                      => returned'.friendly_error = FriendlyExpired
                 /\ "34651" \in Codes(primary.msg.errors)
                      => returned'.friendly_error = FriendlySeat]_vars
    /\ [](\A c \in StatusCodes, body \in ErrorBodies :
            LET friendly == friendly_error_booking(<<Lit("HTTP", c)>> \o Segs(body)) IN
            /\ "38192" \in Codes(body.errors) => friendly = FriendlyExpired
            /\ "34651" \in Codes(body.errors) => friendly = FriendlySeat)

\* the codes confirm_booking has a message for (lines 828-835)
BookingCodes == {"34651", "32171", "477", "38192"}

\* C35: the classification of an error never raises: for an error that is
\* missing, whose body is no JSON or no JSON object, the fallback test is
\* false and there is no friendly message, and the search still returns the
\* technical error text; an errors array without a recognized code gives no
\* friendly message.
C35_ClassificationNeverThrows ==
    /\ friendly_error_search(NoError) = NoFriendly
    /\ friendly_error_booking(NoError) = NoFriendly
    /\ friendly_error_search(ErrorText(Raised("URLError"))) = NoFriendly
    /\ \A c \in StatusCodes, body \in ErrorBodies :
          LET e == HTTPError(c, body)
              booking == friendly_error_booking(<<Lit("HTTP", c)>> \o Segs(body))
              search == friendly_error_search(ErrorText(e))
          IN  /\ body.errors \in {"html", "no_object"}
                  => booking = NoFriendly /\ search = NoFriendly /\ ~fallback_needed(e)
              /\ Codes(body.errors) \cap BookingCodes = {} => booking = NoFriendly
              /\ "38192" \notin Codes(body.errors) => search = NoFriendly
    /\ returned.kind # "unhandled_error"
    /\ (returned.kind = "results" /\ returned.error # NoError /\ returned.error[1].lit = "HTTP")
          => \E c \in StatusCodes, body \in ErrorBodies :
                /\ returned.error = ErrorText(HTTPError(c, body))
                /\ body.errors \in {"html", "no_object", "other"}
                      => returned.friendly_error = NoFriendly

\* a search has just shown the technical error of a provider answer whose
\* body is a JSON list, without a friendly message
C35_Witness ==
    /\ returned.kind = "results"
    /\ returned.error = ErrorText(HTTPError("500", [errors |-> "no_object", spaced |-> FALSE]))
    /\ returned.friendly_error = NoFriendly

\* C25: whatever the provider calls meet (an HTTP error at the first attempt
\* or at a retry, a network failure, a timeout, a body that is no JSON, a
\* failed refresh), search, price, confirm_booking and availability summary
\* end with results or an error value, never with an unhandled error.
C25_NoUnhandledError ==
    /\ last # "unhandled_error"
    /\ returned.kind # "unhandled_error"

\* C26: every search that puts offers into the session creates exactly one
\* new FlightSearchLog and points the session to it, so that a FlightTemp
\* created afterwards is linked to the log of the search it was selected from.
C26_SearchCreatesLog ==
    [][\A u \in Users :
          (session'[u].results # session[u].results /\ session'[u].results # NoResults)
              => /\ searchLogs' = searchLogs + 1
                 /\ session'[u].search_log_id = searchLogs']_vars

\* C27: there is one FlightTemp per selection: opening the booking page again
\* for the same index of the same search results adds no second record for
\* the offer of that search.
C27_OneRecordPerSelection ==
    \A i, j \in 1..Len(flightTemps) : flightTemps[i] = flightTemps[j] => i = j

\* C28: under every interleaving of concurrent refreshes the cache holds the
\* token and the expiry of one and the same exchange: the refresh that stores
\* its expiry stores it next to its own token.
C28_OnePairPerExchange ==
    [][\A c \in Callers :
          (caller[c].pc = "store" /\ caller'[c].pc = "idle") => TOKEN' = caller[c].token]_vars

\* a call that returns the cached token (lines 22-23)
ServedFromCache ==
    /\ settings.AMADEUS_ACCESS_TOKEN = NoToken
    /\ TOKEN # NoToken
    /\ clock < EXPIRES_AT
    /\ last' = TOKEN
    /\ UNCHANGED <<clock, caller, TOKEN, EXPIRES_AT, exchanges>>

\* C29: a token is served from the cache only before the expiry recorded for
\* it, which is the start of its exchange plus its lifetime less 60 s (at
\* least the start); so a token whose lifetime is 60 s or less is never
\* served from the cache.
C29_ShortLivedNeverServed ==
    [][ServedFromCache =>
          \A c \in Callers :
              (caller[c].pc = "store" /\ caller[c].token = TOKEN)
                  => caller[c].expires_in > ExpiryMargin]_vars

-----------------------------------------------------------------------------
(* Properties of the currency conversion                                   *)

\* the number a sequence of groups of three digits writes
RECURSIVE GroupsValue(_)
GroupsValue(g) ==
    IF Len(g) = 0 THEN 0 ELSE GroupsValue(SubSeq(g, 1, Len(g) - 1)) * 1000 + g[Len(g)]

\* the conversion of amount in currency finds no cached rate and no live
\* rate, and the fallback table has the currency
TableConversion(amount, currency) ==
    /\ FX_CACHE[currency] = NoRate
    /\ FallbackTable(currency) # 0
    /\ \E live \in {LiveFails, LiveRate(0)} : convert_to_idr(amount, currency, live)

C36_CacheTimeToLive ==
    [][returned'.kind = "pair" =>
          \A currency \in Currencies, amount \in FxCacheAmounts, live \in LiveOutcomes :
              convert_to_idr(amount, currency, live) =>
                LET e == FX_CACHE[currency]
                    young == e # NoRate /\ clock - e.ts < 21600
                IN  /\ returned'.fetched <=> (currency \notin {"", "IDR"} /\ ~young)
                    /\ (currency \notin {"", "IDR"} /\ young)
                          => /\ returned'.idr = Quantize(amount.h * e.rate)
                             /\ FX_CACHE' = FX_CACHE
                    /\ (currency \notin {"", "IDR"} /\ ~young /\ live.kind = "rate"
                            /\ live.rate # 0)
                          => /\ returned'.idr = Quantize(amount.h * live.rate)
                             /\ FX_CACHE'[currency] = [rate |-> live.rate, ts |-> clock]]_vars

\* the rate fetched six hours ago to the second has just been replaced by a
\* rate fetched now, while a younger entry of another currency is still held
C36_Witness ==
    /\ returned.kind = "pair"
    /\ returned.fetched
    /\ clock = 2
    /\ FX_CACHE["USD"] = [rate |-> 15900, ts |-> 2]
    /\ FX_CACHE["THB"] = AgedRate

\* C37: only rates obtained from the rate service enter the cache: a rate
\* of the fallback table answers one call and is not kept.
C37_OnlyLiveRatesCached ==
    \A c \in Currencies : FX_CACHE[c] # NoRate => FX_CACHE[c].rate # FallbackTable(c)


\* C38: the FlightTemp a Booking references is the snapshot of the offer whose
\* price and currency its Payment records: when confirm_booking inserts the
\* Payment of the offer it resolved from the posted index, the Booking it
\* inserted just before references a FlightTemp of that offer
C38_BookingMatchesPayment ==
    [][\A w \in Workers :
          (/\ worker[w].pc = "cb_payment"
           /\ Len(payments') = Len(payments) + 1
           /\ payments'[Len(payments')].booking = worker[w].bid)
              => flightTemps[bookings[worker[w].bid].flight].offer = worker[w].offer]_vars


\* the Bookings a user owns
OwnedBy(u) == {i \in 1..Len(bookings) : bookings[i].user = u}

\* C39: bookings are isolated per user.  What my_bookings, receipt_api and
\* confirm_payment answer to user u is determined by the Bookings u owns: the
\* list holds exactly u's confirmed Bookings, once each; a receipt is returned
\* exactly for the references of u's Bookings; confirm_payment answers
\* NotFound exactly for the references u owns no Booking of, and the rows it
\* goes on to write are those of a Booking of u.  The listing and the receipt
\* write nothing.
C39_PerUserIsolation ==
    [][/\ \A u \in Users :
          LET Mine(ref) == {i \in OwnedBy(u) : bookings[i].booking_reference = ref} IN
          /\ \A ref \in {NoRef} \cup RefInputs :
                my_bookings(u, ref, ref # NoRef)
                  => LET C == {i \in OwnedBy(u) : bookings[i].status = "confirmed"}
                         items == returned'.items
                     IN  /\ returned'.kind = "bookings"
                         /\ Len(items) = Cardinality(C)
                         /\ {items[k].ref : k \in DOMAIN items}
                               = {bookings[i].booking_reference : i \in C}
                         /\ \A k \in DOMAIN items : items[k].status = "confirmed"
                         /\ returned'.confirmation # NoRef
                               => /\ returned'.confirmation = ref
                                  /\ Mine(ref) \cap C # {}
                         /\ UNCHANGED <<bookings, passengers, payments>>
          /\ \A ref \in {NoRef} \cup RefInputs :
                receipt_api(u, ref)
                  => /\ returned'.kind = "receipt" <=> Mine(ref) # {}
                     /\ returned'.kind = "receipt"
                           => \E i \in Mine(ref) :
                                 /\ returned'.booking_reference = ref
                                 /\ returned'.status = bookings[i].status
                     /\ UNCHANGED <<bookings, passengers, payments>>
          /\ \A w \in Workers, ref \in RefInputs :
                confirm_payment_begin(w, u, ref, "paid", NoAmount)
                  => /\ last' = "NotFound" <=> Mine(ref) = {}
                     /\ worker'[w].pc = "cp_write" => worker'[w].bid \in Mine(ref)
                     /\ UNCHANGED <<bookings, passengers, payments>>
       /\ \A w \in Workers :
             confirm_payment_write(w)
               => /\ \A i \in 1..Len(bookings) :
                        i # worker[w].bid => bookings'[i] = bookings[i]
                  /\ \A p \in 1..Len(payments) :
                        payments[p].booking # worker[w].bid => payments'[p] = payments[p]]_vars

\* a user has been shown a list of one Booking while a confirmed Booking of
\* each user exists
C39_Witness ==
    /\ returned.kind = "bookings"
    /\ Len(returned.items) = 1
    /\ \A u \in Users : \E i \in OwnedBy(u) : bookings[i].status = "confirmed"


\* C40: the bearer token of a provider call comes from get_access_token (an
\* exchange or its cache) or from the static configuration: a value supplied
\* in the request is never the session's token and is never sent
C40_TokenNeverFromRequest ==
    /\ \A u \in Users : sessionToken[u].amadeus_token \notin RequestTokens \ {NoToken}
    /\ api.pc = "send" => api.token \notin RequestTokens \ {NoToken}

=============================================================================
